---- MODULE Spec2Model ----
(***************************************************************************)
(* KDRoll: a random number manager.  A Mersenne Twister uniform generator  *)
(* (KDUniform), a Box-Muller gaussian transform (KDGaussian), a history of *)
(* bounded size (KDHistory) and the scale/clip/round helpers (KDNumber).   *)
(*                                                                         *)
(* Representation.  TLC's integers are 32 bit signed, so an unsigned       *)
(* 32 bit word of the state vector is the pair <<hi, lo>> of its 16 bit    *)
(* halves, and a safe integer (a seed) is <<top, hi, lo>>, its value being *)
(* top * 2^32 + hi * 2^16 + lo.  A double in [0, 1] or a die result is     *)
(* the record [d |-> digits, e |-> exponent] of the digits JavaScript      *)
(* prints for it: its value is 0.d1 d2 ... dn * 10^e.                      *)
(***************************************************************************)
EXTENDS Integers, Sequences, FiniteSets, TLC

(***************************************************************************)
(* 32 bit words                                                            *)
(***************************************************************************)
\* the size of the state vector and the twist offset
N == 624
M == 397
\* 2^16: the weight of the high half of a word
H == 65536
\* the number of loop iterations TLC evaluates in one recursion (the loops
\* over the state vector are cut into runs of Blk iterations only to keep
\* the evaluation stack shallow; the values are those of the plain loop)
Blk == 32

Min(a, b) == IF a < b THEN a ELSE b
Max(a, b) == IF a < b THEN b ELSE a

\* a ^ b for a, b in 0..15
XorNib ==
  << <<0, 1, 2, 3, 4, 5, 6, 7, 8, 9, 10, 11, 12, 13, 14, 15>>,
     <<1, 0, 3, 2, 5, 4, 7, 6, 9, 8, 11, 10, 13, 12, 15, 14>>,
     <<2, 3, 0, 1, 6, 7, 4, 5, 10, 11, 8, 9, 14, 15, 12, 13>>,
     <<3, 2, 1, 0, 7, 6, 5, 4, 11, 10, 9, 8, 15, 14, 13, 12>>,
     <<4, 5, 6, 7, 0, 1, 2, 3, 12, 13, 14, 15, 8, 9, 10, 11>>,
     <<5, 4, 7, 6, 1, 0, 3, 2, 13, 12, 15, 14, 9, 8, 11, 10>>,
     <<6, 7, 4, 5, 2, 3, 0, 1, 14, 15, 12, 13, 10, 11, 8, 9>>,
     <<7, 6, 5, 4, 3, 2, 1, 0, 15, 14, 13, 12, 11, 10, 9, 8>>,
     <<8, 9, 10, 11, 12, 13, 14, 15, 0, 1, 2, 3, 4, 5, 6, 7>>,
     <<9, 8, 11, 10, 13, 12, 15, 14, 1, 0, 3, 2, 5, 4, 7, 6>>,
     <<10, 11, 8, 9, 14, 15, 12, 13, 2, 3, 0, 1, 6, 7, 4, 5>>,
     <<11, 10, 9, 8, 15, 14, 13, 12, 3, 2, 1, 0, 7, 6, 5, 4>>,
     <<12, 13, 14, 15, 8, 9, 10, 11, 4, 5, 6, 7, 0, 1, 2, 3>>,
     <<13, 12, 15, 14, 9, 8, 11, 10, 5, 4, 7, 6, 1, 0, 3, 2>>,
     <<14, 15, 12, 13, 10, 11, 8, 9, 6, 7, 4, 5, 2, 3, 0, 1>>,
     <<15, 14, 13, 12, 11, 10, 9, 8, 7, 6, 5, 4, 3, 2, 1, 0>> >>

\* a ^ b on n hexadecimal digits
RECURSIVE XorDigits(_, _, _)
XorDigits(a, b, n) ==
  IF n = 0 THEN 0
  ELSE XorNib[(a % 16) + 1][(b % 16) + 1] + (16 * XorDigits(a \div 16, b \div 16, n - 1))

\* a & b on n bits
RECURSIVE AndBits(_, _, _)
AndBits(a, b, n) ==
  IF n = 0 THEN 0
  ELSE ((a % 2) * (b % 2)) + (2 * AndBits(a \div 2, b \div 2, n - 1))

\* x ^ y, x & y on words
Xor(x, y) == <<XorDigits(x[1], y[1], 4), XorDigits(x[2], y[2], 4)>>
And(x, y) == <<AndBits(x[1], y[1], 16), AndBits(x[2], y[2], 16)>>

\* (x + y) mod 2^32
Add(x, y) ==
  LET lo == x[2] + y[2]
  IN <<(x[1] + y[1] + (lo \div H)) % H, lo % H>>

\* (x - i) mod 2^32 for a small integer i >= 0
SubInt(x, i) ==
  LET lo == x[2] - i
  IN IF lo >= 0 THEN <<x[1], lo>> ELSE <<(x[1] + H - 1) % H, lo + H>>

\* the 32 bit product of two 16 bit numbers
Mul16(a, b) ==
  LET p0 == (a % 256) * b
      p1 == (a \div 256) * b
      t  == p0 + ((p1 % 256) * 256)
  IN <<((p1 \div 256) + (t \div H)) % H, t % H>>

\* (a * c) mod 2^32 for a 16 bit number a and a multiplier c < 2^31
MulC(a, c) == Add(Mul16(a, c % H), <<Mul16(a, c \div H)[2], 0>>)

\* x >>> n and (x << n) mod 2^32, for 0 < n < 16
Shr(x, n) ==
  LET p == 2 ^ n
  IN <<x[1] \div p, ((x[1] % p) * (H \div p)) + (x[2] \div p)>>
Shl(x, n) ==
  LET p == 2 ^ n
  IN <<((x[1] * p) + ((x[2] * p) \div H)) % H, (x[2] * p) % H>>
\* x >>> n for 16 <= n < 32
ShrHi(x, n) == <<0, x[1] \div (2 ^ (n - 16))>>

(***************************************************************************)
(* KDUniform: the state vector and its initialisation                      *)
(***************************************************************************)
\* a safe integer <<top, hi, lo>> of a small natural number, and seed >>> 0
Int53(n) == <<0, n \div H, n % H>>
ToUint32(seed) == <<seed[2], seed[3]>>

\* new Array(N): the vector before any initialisation (unset words read as 0)
EmptyMt == [k \in 1..N |-> <<0, 0>>]

\* ((((s & 0xffff0000) >>> 16) * c) << 16) + (s & 0x0000ffff) * c, mod 2^32
MixOf(s, c) == Add(<<MulC(s[1], c)[2], 0>>, MulC(s[2], c))
\* the same for s = prev ^ (prev >>> 30)
Mix(prev, c) == MixOf(Xor(prev, ShrHi(prev, 30)), c)

\* the loop of withInt from mti up to hi - 1: mt[mti] = Mix(mt[mti - 1]) + mti
RECURSIVE WithIntRun(_, _, _)
WithIntRun(mt, mti, hi) ==
  IF mti >= hi \/ Len(mt) # N THEN mt
  ELSE WithIntRun([mt EXCEPT ![mti + 1] = Add(Mix(mt[mti], 1812433253), <<0, mti>>)],
                  mti + 1, hi)

RECURSIVE WithIntLoop(_, _)
WithIntLoop(mt, mti) ==
  IF mti >= N \/ Len(mt) # N THEN mt
  ELSE WithIntLoop(WithIntRun(mt, mti, Min(mti + Blk, N)), mti + Blk)

\* withInt that adds the bits of the seed above the low 32 to the first word
withIntWide(mt, seed) ==
  WithIntLoop([mt EXCEPT ![1] = Add(ToUint32(seed), <<0, seed[1]>>)], 1)

\* seed.withInt: mt[0] = seed >>> 0, then every other word from the one
\* before it; the loop leaves mti = N
withInt(mt, seed) == WithIntLoop([mt EXCEPT ![1] = ToUint32(seed)], 1)

\* the end of an iteration of the loops of withArray on st = [mt, i, j]:
\* mt[i] = w; i++; if (i >= N) { mt[0] = mt[N - 1]; i = 1 }; and j = jn
Stored(st, w, jn) ==
  [mt |-> IF st.i + 1 >= N THEN [st.mt EXCEPT ![st.i + 1] = w, ![1] = w]
          ELSE [st.mt EXCEPT ![st.i + 1] = w],
   i  |-> IF st.i + 1 >= N THEN 1 ELSE st.i + 1,
   j  |-> jn]

\* one iteration of the first loop of withArray:
\* mt[i] = (mt[i] ^ Mix(mt[i - 1])) + v[j] + j
ArrayStep1(st, v) ==
  Stored(st,
         Add(Add(Xor(st.mt[st.i + 1], Mix(st.mt[st.i], 1664525)),
                 ToUint32(v[st.j + 1])),
             <<0, st.j>>),
         IF st.j + 1 >= Len(v) THEN 0 ELSE st.j + 1)

\* one iteration of the second loop: mt[i] = (mt[i] ^ Mix(mt[i - 1])) - i
ArrayStep2(st) ==
  Stored(st, SubInt(Xor(st.mt[st.i + 1], Mix(st.mt[st.i], 1566083941)), st.i), st.j)

RECURSIVE ArrayRun1(_, _, _)
ArrayRun1(st, v, k) ==
  IF k <= 0 \/ st.i >= N THEN st ELSE ArrayRun1(ArrayStep1(st, v), v, k - 1)
RECURSIVE ArrayLoop1(_, _, _)
ArrayLoop1(st, v, k) ==
  IF k <= 0 \/ st.i >= N THEN st
  ELSE ArrayLoop1(ArrayRun1(st, v, Min(k, Blk)), v, k - Blk)

RECURSIVE ArrayRun2(_, _)
ArrayRun2(st, k) ==
  IF k <= 0 \/ st.i >= N THEN st ELSE ArrayRun2(ArrayStep2(st), k - 1)
RECURSIVE ArrayLoop2(_, _)
ArrayLoop2(st, k) ==
  IF k <= 0 \/ st.i >= N THEN st
  ELSE ArrayLoop2(ArrayRun2(st, Min(k, Blk)), k - Blk)

\* withArray without the call of withInt: the mixing steps on mt as it is
withArrayOnto(mt, v) ==
  ArrayLoop2(ArrayLoop1([mt |-> mt, i |-> 1, j |-> 0], v, Max(N, Len(v))),
             N - 1).mt

\* seed.withArray: withInt(v[0]), max(N, v.length) mixing steps with the
\* elements of v, then N - 1 steps without them
withArray(mt, v) ==
  ArrayLoop2(ArrayLoop1([mt |-> withInt(mt, v[1]), i |-> 1, j |-> 0],
                        v, Max(N, Len(v))),
             N - 1).mt

(***************************************************************************)
(* KDUniform: int32                                                        *)
(***************************************************************************)
\* mag01[1]
MA == <<39176, 45279>>

\* t ^ mag01[y & 1]
Mag(t, y) == IF y[2] % 2 = 1 THEN Xor(t, MA) ELSE t
\* far ^ (y >>> 1) ^ mag01[y & 1]
TwistOf(y, far) == Mag(Xor(far, Shr(y, 1)), y)
\* the same for y = (cur & UM) | (nxt & LM)
TwistWord(cur, nxt, far) ==
  TwistOf(<<((cur[1] \div 32768) * 32768) + (nxt[1] % 32768), nxt[2]>>, far)

\* The three loops of int32 that regenerate the vector in place.  Word kk
\* reads word kk + 1 before it is overwritten, and word kk + M (mod N),
\* which is still the old one for kk < N - M and already the new one from
\* there on: p1 is the new mt[0 .. N-M-1], p2 the new mt[N-M .. 2(N-M)-1],
\* p3 the new mt[2(N-M) .. N-2] and p4 the new mt[N-1].
Twist3(mt, p1, p2) ==
  p1 \o p2
     \o [k \in 1..((2 * M) - N - 1) |->
           TwistWord(mt[k + (2 * (N - M))], mt[k + (2 * (N - M)) + 1], p2[k])]
     \o <<TwistWord(mt[N], p1[1], p2[(2 * M) - N])>>
Twist2(mt, p1) ==
  Twist3(mt, p1,
         [k \in 1..(N - M) |->
            TwistWord(mt[k + (N - M)], mt[k + (N - M) + 1], p1[k])])
Twist(mt) ==
  Twist2(mt, [k \in 1..(N - M) |-> TwistWord(mt[k], mt[k + 1], mt[k + M])])

\* the tempering of int32: y ^= y >>> 11; y ^= (y << 7) & 0x9d2c5680;
\* y ^= (y << 15) & 0xefc60000; y ^= y >>> 18
Temper1(y) == Xor(y, Shr(y, 11))
Temper2(y) == Xor(y, And(Shl(y, 7), <<40236, 22144>>))
Temper3(y) == Xor(y, And(Shl(y, 15), <<61382, 0>>))
Temper4(y) == Xor(y, ShrHi(y, 18))
Temper(y) == Temper4(Temper3(Temper2(Temper1(y))))

\* the value mti has before the constructor has initialised the vector
Null == -1

\* int32 on g = [mt, mti]: the vector is regenerated whenever mti is not
\* null; the result is [mt, mti, y] with y the tempered word mt[mti++]
Yielded(mt, mti) == [mt |-> mt, mti |-> mti + 1, y |-> Temper(mt[mti + 1])]
int32(g) == IF g.mti # Null THEN Yielded(Twist(g.mt), 0) ELSE Yielded(g.mt, g.mti)

(***************************************************************************)
(* Numbers as JavaScript prints them                                       *)
(*                                                                         *)
(* A non-negative double is [d |-> digits, e |-> n]: the digits of its     *)
(* shortest decimal form, without leading or trailing zeros, and the       *)
(* position n of the decimal point: 0.d1 d2 ... dk * 10^n.                 *)
(* NaN is a record whose digit is not a digit.                             *)
(***************************************************************************)
NaN == [d |-> <<10>>, e |-> 0]
Zero == [d |-> <<>>, e |-> 0]
One == [d |-> <<1>>, e |-> 1]

RECURSIVE StripLead(_)
StripLead(d) == IF d # <<>> /\ Head(d) = 0 THEN StripLead(Tail(d)) ELSE d
RECURSIVE StripTrail(_)
StripTrail(d) ==
  IF d # <<>> /\ d[Len(d)] = 0 THEN StripTrail(SubSeq(d, 1, Len(d) - 1)) ELSE d

\* the number 0.d * 10^e for any digit sequence d, in normal form
Norm(d, e) ==
  LET d1 == StripLead(d)
  IN IF d1 = <<>> THEN Zero
     ELSE [d |-> StripTrail(d1), e |-> e - (Len(d) - Len(d1))]

\* a small natural number as a number: its decimal digits
RECURSIVE NatDigits(_)
NatDigits(n) == IF n < 10 THEN <<n>> ELSE Append(NatDigits(n \div 10), n % 10)
NumOf(n) == IF n = 0 THEN Zero ELSE Norm(NatDigits(n), Len(NatDigits(n)))

\* x < y, x <= y for non-negative numbers
RECURSIVE DigitsLess(_, _)
DigitsLess(a, b) ==
  IF b = <<>> THEN FALSE
  ELSE IF a = <<>> THEN TRUE
  ELSE IF Head(a) # Head(b) THEN Head(a) < Head(b)
  ELSE DigitsLess(Tail(a), Tail(b))
Less(x, y) ==
  IF x = NaN \/ y = NaN \/ y = Zero THEN FALSE
  ELSE IF x = Zero THEN TRUE
  ELSE IF x.e # y.e THEN x.e < y.e
  ELSE DigitsLess(x.d, y.d)
LessEq(x, y) == x # NaN /\ (x = y \/ Less(x, y))
IsNumber(x) == x # NaN

(***************************************************************************)
(* Number::toString of x * 2^-53 for an integer x = a * 2^26 + b < 2^53:   *)
(* the shortest digits that read back as the same double, the closest to   *)
(* it among them (the free-format digit generation of Steele and White).   *)
(* Numbers here are little-endian sequences of 27 bit limbs, scaled by     *)
(* S = 2^108, so that 10 times a limb still is a TLC integer.              *)
(***************************************************************************)
B27 == 134217728

RECURSIVE BitLen(_)
BitLen(n) == IF n = 0 THEN 0 ELSE 1 + BitLen(n \div 2)

\* 10 * x, one limb longer than x
RECURSIVE LMul10(_, _)
LMul10(x, carry) ==
  IF x = <<>> THEN <<carry>>
  ELSE LET t == (Head(x) * 10) + carry
       IN <<t % B27>> \o LMul10(Tail(x), t \div B27)

\* x + y for x and y of the same length, one limb longer
RECURSIVE LAdd(_, _, _)
LAdd(x, y, carry) ==
  IF x = <<>> THEN <<carry>>
  ELSE LET t == Head(x) + Head(y) + carry
       IN <<t % B27>> \o LAdd(Tail(x), Tail(y), t \div B27)

\* x < y for x and y of the same length
RECURSIVE LLess(_, _)
LLess(x, y) ==
  IF x = <<>> THEN FALSE
  ELSE IF x[Len(x)] # y[Len(y)] THEN x[Len(x)] < y[Len(y)]
  ELSE LLess(SubSeq(x, 1, Len(x) - 1), SubSeq(y, 1, Len(y) - 1))

\* 2^k as five limbs
Pow2Limbs(k) == [i \in 1..5 |-> IF i = (k \div 27) + 1 THEN 2 ^ (k % 27) ELSE 0]
SLimbs == <<0, 0, 0, 0, 1, 0>>

\* The digits after st = [R, Mp, Mm, d]: R the remainder, Mp and Mm the
\* distances to the neighbouring doubles' midpoints, d the digits so far.
RECURSIVE ShortestFrom(_)
ShortestFrom(st) ==
  LET r10  == LMul10(st.R, 0)
      U    == r10[5]
      R1   == SubSeq(r10, 1, 4)
      Mp1  == SubSeq(LMul10(st.Mp, 0), 1, 5)
      Mm1  == SubSeq(LMul10(st.Mm, 0), 1, 5)
      low  == LLess(R1 \o <<0>>, Mm1)
      high == LLess(SLimbs, LAdd(R1 \o <<0>>, Mp1, 0))
  IN IF ~low /\ ~high /\ Len(st.d) < 40
       THEN ShortestFrom([R |-> R1, Mp |-> Mp1, Mm |-> Mm1, d |-> Append(st.d, U)])
     ELSE IF low /\ ~high THEN Append(st.d, U)
     ELSE IF high /\ ~low THEN Append(st.d, U + 1)
     ELSE IF R1[4] < (B27 \div 2) THEN Append(st.d, U)
     ELSE Append(st.d, U + 1)

\* (a * 67108864.0 + b) * (1.0 / 9007199254740992.0) as a number: the
\* product is exact, a has 27 bits and b 26
Res53(a, b) ==
  IF a = 0 /\ b = 0 THEN Zero
  ELSE LET L  == IF a = 0 THEN BitLen(b) ELSE 26 + BitLen(a)
           Mp == Pow2Limbs(L + 1)
           \* the gap below a power of two is half the gap above it
           Mm == IF (a = 0 /\ b = 2 ^ (L - 1)) \/ (b = 0 /\ a = 2 ^ (L - 27))
                   THEN Pow2Limbs(L) ELSE Mp
       IN Norm(ShortestFrom([R |-> <<0, 0, 2 * b, a>>, Mp |-> Mp, Mm |-> Mm, d |-> <<>>]), 0)

(***************************************************************************)
(* KDNumber.floatingPointFix (and its copy, fix, in KDUniform.random)      *)
(***************************************************************************)
\* the default of the parameter repeat
Repeat == 6

\* `${value}` is in exponent notation: it has no decimal part, or one that
\* ends in e-7, e+21, ...
Exponential(x) == x.e > 21 \/ x.e <= -6

\* the digits after the point of `${value}`
DecimalPart(x) ==
  IF x.e > 0 THEN SubSeq(x.d, x.e + 1, Len(x.d))
  ELSE [i \in 1..(-x.e) |-> 0] \o x.d

\* repeat consecutive digits of p from position i on, all 9 or all 0
RunAt(p, i) ==
  /\ i + Repeat - 1 <= Len(p)
  /\ \/ \A k \in i..(i + Repeat - 1) : p[k] = 9
     \/ \A k \in i..(i + Repeat - 1) : p[k] = 0

\* the digits d as an integer plus one
RECURSIVE Inc(_)
Inc(d) ==
  IF d = <<>> THEN <<1>>
  ELSE IF d[Len(d)] < 9 THEN [d EXCEPT ![Len(d)] = d[Len(d)] + 1]
  ELSE Append(Inc(SubSeq(d, 1, Len(d) - 1)), 0)

\* parseFloat(x.toFixed(f)): x rounded to f decimals, a half rounds up
toFixed(x, f) ==
  LET keep == x.e + f
      pre  == SubSeq(x.d, 1, Min(keep, Len(x.d)))
      up   == keep < Len(x.d) /\ x.d[keep + 1] >= 5
      r    == IF up THEN Inc(pre) ELSE pre
  IN IF x = Zero \/ keep < 0 THEN Zero
     ELSE Norm(r, x.e + (Len(r) - Len(pre)))

\* The regular expression (9{6,}|0{6,})(\d)*$ matches the decimal part from
\* the first run of six 9s or six 0s to its end; the value is rounded to
\* the decimals before the match.
Matches(p) == {i \in 1..Len(p) : RunAt(p, i)}
Least(S) == CHOOSE i \in S : \A k \in S : i <= k
FixedAt(value, matches) ==
  IF matches = {} THEN value ELSE toFixed(value, Least(matches) - 1)
floatingPointFix(value) ==
  IF value = NaN \/ value = Zero THEN value
  ELSE IF Exponential(value) \/ Len(value.d) <= value.e THEN value
  ELSE FixedAt(value, Matches(DecimalPart(value)))

(***************************************************************************)
(* KDUniform: seeds                                                        *)
(*                                                                         *)
(* An argument of seed or of the constructor is [t, n, a]: t its type,     *)
(* n the number when t = "number", a the elements when t = "array".  A     *)
(* number is [k, neg, int, frac]: k is "finite", "NaN" or "Infinity", neg  *)
(* its sign, int the integer part <<top, hi, lo>> of its magnitude and     *)
(* frac the thousandths after the point.  The stored seed (_state.seed)    *)
(* is [t, a]: the safe integers it holds, one for t = "number".            *)
(***************************************************************************)
Number(neg, int, frac) == [k |-> "finite", neg |-> neg, int |-> int, frac |-> frac]
NotFinite(k, neg) == [k |-> k, neg |-> neg, int |-> <<0, 0, 0>>, frac |-> 0]
NumberArg(n) == [t |-> "number", n |-> n, a |-> <<>>]
ArrayArg(a) == [t |-> "array", n |-> Number(FALSE, <<0, 0, 0>>, 0), a |-> a]
OtherArg(t) == [t |-> t, n |-> Number(FALSE, <<0, 0, 0>>, 0), a |-> <<>>]
Undefined == OtherArg("undefined")
NullArg == OtherArg("null")

\* top of the first integer above Number.MAX_SAFE_INTEGER = 2^53 - 1
TopUnsafe == 2097152
\* the result -1 of ensureUint
MinusOne == <<-1, 0, 0>>

\* int + 1
AddOne(int) ==
  IF int[3] + 1 < H THEN <<int[1], int[2], int[3] + 1>>
  ELSE IF int[2] + 1 < H THEN <<int[1], int[2] + 1, 0>>
  ELSE <<int[1] + 1, 0, 0>>

\* ensureUint with the decimals cut off
ensureUintCut(num) ==
  IF num.k = "NaN" THEN MinusOne
  ELSE IF num.k = "Infinity" THEN MinusOne
  ELSE IF num.int[1] >= TopUnsafe THEN MinusOne
  ELSE num.int

\* ensureUint: -1 above MAX_SAFE_INTEGER; the absolute value; toFixed(0)
\* of a number that is not an integer (the nearest integer, the larger one
\* of two); -1 for what is not a safe integer then (NaN and the infinities
\* pass the first three steps unchanged but for the sign)
ensureUint(num) ==
  IF num.k = "NaN" THEN MinusOne
  ELSE IF num.k = "Infinity" THEN MinusOne
  ELSE IF ~num.neg /\ num.int[1] >= TopUnsafe THEN MinusOne
  ELSE LET fixed == IF num.frac = 0 THEN num.int
                    ELSE IF num.frac >= 500 THEN AddOne(num.int) ELSE num.int
       IN IF fixed[1] >= TopUnsafe THEN MinusOne ELSE fixed

\* the least length of a random seed array (min of createRandomSeed)
MinLen == 20
\* the multipliers of the random seed arrays the model draws
RandomKeys == {1, 7}

\* KDUniform.createRandomSeed: the arrays it may return.  Of the arrays of
\* 20 to 622 values of the entropy source the model takes those of the
\* least length with the bytes k, 2k, 3k, ... for k in RandomKeys.
createRandomSeed == {[i \in 1..MinLen |-> Int53((i * k) % 256)] : k \in RandomKeys}

\* seed.withCrypto that keeps an empty array and leaves the state vector
withCryptoEmpty(g) ==
  {[mt |-> g.mt, mti |-> g.mti, seed |-> [t |-> "array", a |-> <<>>]]}

\* seed.withCrypto on g = [mt, mti, seed]: the generators it may leave
withCrypto(g) ==
  {[mt |-> withArray(g.mt, r), mti |-> N, seed |-> [t |-> "array", a |-> r]] :
     r \in createRandomSeed}

\* init taking no seed as it is: a random seed array for every argument
initRandom(g, seed) == withCrypto(g)

\* init(seed) on g: the generators it may leave
init(g, seed) ==
  IF seed.t = "number"
  THEN LET ss == ensureUint(seed.n)
       IN IF ss[1] >= 0
          THEN {[mt |-> withInt(g.mt, ss), mti |-> N,
                 seed |-> [t |-> "number", a |-> <<ss>>]]}
          ELSE withCrypto(g)
  ELSE IF seed.t = "array"
  THEN IF Len(seed.a) > 0
       THEN LET ss == [i \in 1..Len(seed.a) |-> ensureUint(seed.a[i])]
            IN IF \E i \in 1..Len(ss) : ss[i] = MinusOne
               THEN withCrypto(g)
               ELSE {[mt |-> withArray(g.mt, ss), mti |-> N,
                      seed |-> [t |-> "array", a |-> ss]]}
       ELSE withCrypto(g)
  ELSE withCrypto(g)

\* new KDUniform(seed): the parameter defaults to null, and init(seed)
NewKDUniform(seed) ==
  init([mt |-> EmptyMt, mti |-> Null, seed |-> [t |-> "null", a |-> <<>>]], seed)

\* KDUniform.seed(seed): init unless seed is undefined or null
KDUniformSeed(g, seed) ==
  IF seed.t # "undefined" /\ seed.t # "null" THEN init(g, seed) ELSE {g}

\* a call of console.warn and of console.log made by the function by
Warn(by, text) == [level |-> "warn", by |-> by, text |-> text]
Log(by, text) == [level |-> "log", by |-> by, text |-> text]

\* the hosts: one that has window.crypto, one that has none but where
\* require('crypto') succeeds, and one where it fails
Hosts == {"window.crypto", "node.crypto", "Math.random"}

\* KDUniform.createRandomSeed on a host: the branch that fills the array,
\* the arrays it may return and what it writes to the console, which is
\* nothing on any branch.  The arrays of createRandomSeed hold bytes, which
\* getRandomValues, randomFillSync and randomInt can all produce.
createRandomSeedOn(h) ==
  [by |-> IF h = "window.crypto" THEN "getRandomValues"
          ELSE IF h = "node.crypto" THEN "randomFillSync"
          ELSE "Math.random",
   seeds |-> createRandomSeed,
   console |-> <<>>]

\* what seed.withCrypto writes to the console on the host h
withCryptoConsole(h) == createRandomSeedOn(h).console

\* what init(seed) writes to the console on the host h
initConsole(h, seed) ==
  IF seed.t = "number"
  THEN IF ensureUint(seed.n)[1] >= 0 THEN <<>>
       ELSE <<Warn("init", "Seed integer is unsafe."),
              Log("init", "Generating a random seed array instead.")>>
            \o withCryptoConsole(h)
  ELSE IF seed.t = "array"
  THEN IF Len(seed.a) > 0
       THEN IF \E i \in 1..Len(seed.a) : ensureUint(seed.a[i]) = MinusOne
            THEN <<Warn("init", "Seed array can not contain unsafe integers."),
                   Log("init", "Generating a random seed array instead.")>>
                 \o withCryptoConsole(h)
            ELSE <<>>
       ELSE <<Warn("init", "Seed array can not be empty."),
              Log("init", "Generating a random seed array instead.")>>
            \o withCryptoConsole(h)
  ELSE withCryptoConsole(h)

\* what KDUniform.seed(seed) writes to the console on the host h
KDUniformSeedConsole(h, seed) ==
  IF seed.t # "undefined" /\ seed.t # "null" THEN initConsole(h, seed) ELSE <<>>

(***************************************************************************)
(* Arithmetic on numbers                                                   *)
(*                                                                         *)
(* Sums, differences and products are computed on the decimal digits and   *)
(* rounded to Precision significant digits, the precision at which a       *)
(* double is printed.  A result of at most Precision digits is exact.      *)
(***************************************************************************)
Precision == 17
Zeros(n) == [i \in 1..n |-> 0]

\* a + b + carry for two digit sequences of one length, from the last digit
\* the digits lo..hi of a + b + carry, after the carry out of them: the
\* last digits first, then the first ones with their carry
RECURSIVE AddRange(_, _, _, _, _)
AddRange(a, b, lo, hi, carry) ==
  IF lo = hi
  THEN <<(a[lo] + b[lo] + carry) \div 10, (a[lo] + b[lo] + carry) % 10>>
  ELSE LET mid  == (lo + hi) \div 2
           last == AddRange(a, b, mid + 1, hi, carry)
       IN IF last[1] = 0
          THEN AddRange(a, b, lo, mid, 0) \o Tail(last)
          ELSE AddRange(a, b, lo, mid, 1) \o Tail(last)
AddDigits(a, b, i, carry) ==
  IF i = 0 THEN (IF carry = 0 THEN <<>> ELSE <<carry>>)
  ELSE LET sum == AddRange(a, b, 1, i, carry)
       IN IF sum[1] = 0 THEN Tail(sum) ELSE sum

\* a - b - borrow for two digit sequences of one length, b <= a
\* the digits lo..hi of a - b - borrow, after the borrow out of them
RECURSIVE SubRange(_, _, _, _, _)
SubRange(a, b, lo, hi, borrow) ==
  IF lo = hi
  THEN (IF a[lo] - b[lo] - borrow < 0
        THEN <<1, (a[lo] - b[lo] - borrow) + 10>>
        ELSE <<0, a[lo] - b[lo] - borrow>>)
  ELSE LET mid  == (lo + hi) \div 2
           last == SubRange(a, b, mid + 1, hi, borrow)
       IN IF last[1] = 0
          THEN SubRange(a, b, lo, mid, 0) \o Tail(last)
          ELSE SubRange(a, b, lo, mid, 1) \o Tail(last)
SubDigits(a, b, i, borrow) ==
  IF i = 0 THEN <<>> ELSE Tail(SubRange(a, b, 1, i, borrow))

\* a * k + carry for a digit k
\* the digits lo..hi of a * k + carry, after the carry out of them
RECURSIVE MulRange(_, _, _, _, _)
MulRange(a, k, lo, hi, carry) ==
  IF lo = hi
  THEN <<((a[lo] * k) + carry) \div 10, ((a[lo] * k) + carry) % 10>>
  ELSE LET mid  == (lo + hi) \div 2
           last == MulRange(a, k, mid + 1, hi, carry)
       IN IF last[1] = 0
          THEN MulRange(a, k, lo, mid, 0) \o Tail(last)
          ELSE MulRange(a, k, lo, mid, last[1]) \o Tail(last)
MulDigit(a, k, i, carry) ==
  IF i = 0 THEN <<carry>> ELSE MulRange(a, k, 1, i, carry)

PadLeft(d, n) == Zeros(n - Len(d)) \o d

\* a * b for two digit sequences: a times the first digits of b, moved
\* left, and a times the last digits of b
RECURSIVE MulDigits(_, _)
MulDigits(a, b) ==
  IF b = <<>> THEN <<0>>
  ELSE IF Len(b) = 1 THEN MulDigit(a, b[1], Len(a), 0)
  ELSE LET h    == Len(b) \div 2
           high == MulDigits(a, SubSeq(b, 1, Len(b) - h)) \o Zeros(h)
           low  == MulDigits(a, SubSeq(b, (Len(b) - h) + 1, Len(b)))
           n    == Max(Len(high), Len(low))
       IN AddDigits(PadLeft(high, n), PadLeft(low, n), n, 0)

\* x rounded to Precision significant digits
Rounded(x) ==
  IF Len(x.d) <= Precision THEN x
  ELSE LET pre == SubSeq(x.d, 1, Precision)
           r   == IF x.d[Precision + 1] >= 5 THEN Inc(pre) ELSE pre
       IN Norm(r, x.e + (Len(r) - Precision))

\* the digits of x * 10^f, for f at least the number of decimals of x
Scaled(x, f) == x.d \o Zeros(f - (Len(x.d) - x.e))

\* the number of decimals of x and y
Decimals(x, y) == Max(Len(x.d) - x.e, Len(y.d) - y.e)
\* the integer with the digits s divided by 10^f
Placed(s, f) == Rounded(Norm(s, Len(s) - f))

\* x + y
PlusDigits(a, b, n, f) == Placed(AddDigits(PadLeft(a, n), PadLeft(b, n), n, 0), f)
PlusAt(a, b, f) == PlusDigits(a, b, Max(Len(a), Len(b)), f)
PlusOn(x, y, f) == PlusAt(Scaled(x, f), Scaled(y, f), f)
Plus(x, y) == IF x = NaN \/ y = NaN THEN NaN ELSE PlusOn(x, y, Decimals(x, y))

\* x - y for y <= x
MinusDigits(a, b, n, f) == Placed(SubDigits(PadLeft(a, n), PadLeft(b, n), n, 0), f)
MinusAt(a, b, f) == MinusDigits(a, b, Max(Len(a), Len(b)), f)
MinusOn(x, y, f) == MinusAt(Scaled(x, f), Scaled(y, f), f)
Minus(x, y) == IF x = NaN \/ y = NaN THEN NaN ELSE MinusOn(x, y, Decimals(x, y))

\* x * y
TimesDigits(x, y, p) ==
  Rounded(Norm(p, (x.e + y.e) + (Len(p) - (Len(x.d) + Len(y.d)))))
Times(x, y) ==
  IF x = NaN \/ y = NaN THEN NaN
  ELSE IF x = Zero \/ y = Zero THEN Zero
  ELSE TimesDigits(x, y, MulDigits(x.d, y.d))

\* x / 0 for x > 0; no operator here is applied to it
Infinity == [d |-> <<11>>, e |-> 0]

\* how often the digits y fit into the digits r, both of one length: the
\* count q and the rest r
RECURSIVE Fits(_, _, _)
Fits(r, y, c) ==
  IF DigitsLess(r, y) THEN [q |-> c, r |-> r]
  ELSE Fits(SubDigits(r, y, Len(r), 0), y, c + 1)
\* k digits of the long division of r by y
RECURSIVE Quotient(_, _, _)
Quotient(r, y, k) ==
  IF k = 0 THEN <<>>
  ELSE <<Fits(r, y, 0).q>> \o Quotient(Tail(Fits(r, y, 0).r) \o <<0>>, y, k - 1)
\* x / y by long division, for digits of x and y brought to the length n
OverDigits(x, y, n) ==
  Rounded(Norm(Quotient(<<0>> \o x.d \o Zeros(n - Len(x.d)),
                        <<0>> \o y.d \o Zeros(n - Len(y.d)),
                        Precision + 2),
               (x.e - y.e) + 1))

\* x / y; a power of ten only moves the point
Over(x, y) ==
  IF x = NaN \/ y = NaN THEN NaN
  ELSE IF y = Zero THEN (IF x = Zero THEN NaN ELSE Infinity)
  ELSE IF x = Zero THEN Zero
  ELSE IF y.d = <<1>> THEN [d |-> x.d, e |-> x.e - (y.e - 1)]
  ELSE OverDigits(x, y, Max(Len(x.d), Len(y.d)))

(***************************************************************************)
(* Numbers with a sign                                                     *)
(*                                                                         *)
(* An argument or a result of scale, clip and round is [neg, v]: its sign  *)
(* and its magnitude.  0 and NaN have no sign (-0 is not told from 0).     *)
(***************************************************************************)
Signed(neg, v) == [neg |-> neg /\ v # Zero /\ v # NaN, v |-> v]
Pos(v) == Signed(FALSE, v)

\* x < y
SignedLess(x, y) ==
  IF x.v = NaN \/ y.v = NaN THEN FALSE
  ELSE IF x.neg /\ y.neg THEN Less(y.v, x.v)
  ELSE IF x.neg THEN TRUE
  ELSE IF y.neg THEN FALSE
  ELSE Less(x.v, y.v)

\* x + y, x - y, x * y and x / y
SignedPlus(x, y) ==
  IF x.neg = y.neg THEN Signed(x.neg, Plus(x.v, y.v))
  ELSE IF Less(x.v, y.v) THEN Signed(y.neg, Minus(y.v, x.v))
  ELSE Signed(x.neg, Minus(x.v, y.v))
SignedMinus(x, y) == SignedPlus(x, Signed(~y.neg, y.v))
SignedTimes(x, y) == Signed(x.neg # y.neg, Times(x.v, y.v))
SignedOver(x, y) == Signed(x.neg # y.neg, Over(x.v, y.v))

\* floatingPointFix of a number with a sign: the text is split at the
\* point, and toFixed rounds the magnitude
SignedFix(x) == Signed(x.neg, floatingPointFix(x.v))

(***************************************************************************)
(* KDUniform.random                                                        *)
(***************************************************************************)
\* c >>> n as an integer, for 5 <= n
ShrInt(c, n) == (c[1] * (2 ^ (16 - n))) + (c[2] \div (2 ^ n))

\* the result with 1.0 / 4503599627370496.0 for the factor: twice as much
FractionBy52(r) ==
  [mt |-> r.mt, mti |-> r.mti,
   value |-> floatingPointFix(Times(Res53(ShrInt(r.y, 5), ShrInt(r.y, 6)), NumOf(2)))]

\* random on g = [mt, mti]: one int32, c; a = c >>> 5, b = c >>> 6;
\* fix(fix(a * 67108864.0 + b) * fix(1.0 / 9007199254740992.0)).  The two
\* inner calls of fix change nothing: an integer has no decimal part, and
\* 2^-53 prints as 1.1102230246251565e-16.
Fraction(r) ==
  [mt |-> r.mt, mti |-> r.mti,
   value |-> floatingPointFix(Res53(ShrInt(r.y, 5), ShrInt(r.y, 6)))]
random(g) == Fraction(int32(g))

(***************************************************************************)
(* KDNumber: scale, clip, round                                            *)
(***************************************************************************)
\* scale without the minimum of the target range
scaleFromZero(value, initialRange, targetRange) ==
  SignedFix(SignedOver(
    SignedFix(SignedTimes(
      SignedFix(SignedMinus(value, initialRange[1])),
      SignedFix(SignedMinus(targetRange[2], targetRange[1])))),
    SignedFix(SignedMinus(initialRange[2], initialRange[1]))))
\* KDNumber.scale(value, initialRange, targetRange): r1Size, r2Size, x, y,
\* z and scaled, each of them fixed
scale(value, initialRange, targetRange) ==
  SignedFix(SignedPlus(
    SignedFix(SignedOver(
      SignedFix(SignedTimes(
        SignedFix(SignedMinus(value, initialRange[1])),
        SignedFix(SignedMinus(targetRange[2], targetRange[1])))),
      SignedFix(SignedMinus(initialRange[2], initialRange[1])))),
    targetRange[1]))

\* Math.max and Math.min
MathMax(x, y) ==
  IF x.v = NaN \/ y.v = NaN THEN Pos(NaN) ELSE IF SignedLess(x, y) THEN y ELSE x
MathMin(x, y) ==
  IF x.v = NaN \/ y.v = NaN THEN Pos(NaN) ELSE IF SignedLess(y, x) THEN y ELSE x

\* KDNumber.clip(value, range)
clip(value, range) ==
  SignedFix(MathMin(SignedFix(MathMax(range[1], value)), range[2]))

\* the integer below x >= 0, and the next one when more than a half is cut
HalfDown(x) ==
  LET pre == SubSeq(x.d, 1, Min(x.e, Len(x.d)))
      up  == /\ x.e < Len(x.d)
             /\ \/ x.d[x.e + 1] > 5
                \/ x.d[x.e + 1] = 5 /\ x.e + 1 < Len(x.d)
  IN IF x = Zero \/ x.e < 0 THEN Zero
     ELSE Norm(IF up THEN Inc(pre) ELSE pre,
               x.e + (Len(IF up THEN Inc(pre) ELSE pre) - Len(pre)))

\* Math.round: the nearest integer, the larger one of two, which for a
\* negative number is the one of the smaller magnitude
MathRound(x) ==
  IF x.v = NaN THEN Pos(NaN)
  ELSE IF x.neg THEN Signed(TRUE, HalfDown(x.v))
  ELSE Pos(toFixed(x.v, 0))

\* Number(x + 'e' + places): x * 10^places, but NaN when the text of x is
\* not a decimal literal: NaN itself, or a number printed with an exponent
\* (1e+21e0 is no number)
WithExponent(x, places) ==
  IF x.v = NaN \/ Exponential(x.v) THEN Pos(NaN)
  ELSE IF x.v = Zero THEN Pos(Zero)
  ELSE Signed(x.neg, [d |-> x.v.d, e |-> x.v.e + places])

\* KDNumber.round(value, places)
round(value, places) ==
  SignedFix(WithExponent(MathRound(WithExponent(value, places)), 0 - places))

(***************************************************************************)
(* KDHistory                                                               *)
(*                                                                         *)
(* An argument of max is [t, v]: t is "undefined", "integer" (a safe       *)
(* integer v) or the type of anything else.                                *)
(***************************************************************************)
\* the capacity of a new KDHistory
DefaultMax == 1000
SizeArg(v) == [t |-> "integer", v |-> v]
NoSize == [t |-> "undefined", v |-> 0]
OtherSize(t) == [t |-> t, v |-> 0]

\* KDHistory.max(size) on the capacity max: the capacity afterwards, which
\* is also what the call returns
KDHistoryMax(m, size) ==
  IF size.t # "undefined" /\ size.t = "integer" THEN size.v ELSE m

\* what KDHistory.max(size) writes to the console
KDHistoryMaxConsole(size) ==
  IF size.t # "undefined" /\ size.t # "integer"
  THEN <<Log("max", "maxHistory(size) must be a safe integer")>>
  ELSE <<>>

\* while (count--) if (this.length >= max) this.shift();
RECURSIVE Shifts(_, _, _)
Shifts(h, m, count) ==
  IF count = 0 THEN h
  ELSE Shifts(IF Len(h) >= m /\ h # <<>> THEN Tail(h) ELSE h, m, count - 1)

\* push that puts the array of the items in front
pushFront(h, m, items) == <<items>> \o Shifts(h, m, Len(items))

\* KDHistory.push(...items): one shift at most for every item, then the
\* array of the items is appended as one element
push(h, m, items) == Append(Shifts(h, m, Len(items)), items)

(***************************************************************************)
(* KDGaussian                                                              *)
(*                                                                         *)
(* A skew is [neg, v]: its sign and its magnitude.                         *)
(***************************************************************************)
Skew(neg, v) == [neg |-> neg, v |-> v]
Half == [d |-> <<5>>, e |-> 0]
Ten == [d |-> <<1>>, e |-> 2]
Four == [d |-> <<4>>, e |-> 1]

\* scaleSkew: 1 for no skew, 1 - |sk| for a negative one and 4 |sk| for a
\* positive one, |sk| clipped to [0, 1]
Skewed(sk, n) ==
  IF sk.v = Zero THEN One
  ELSE IF sk.neg THEN Minus(One, n)
  ELSE scale(Pos(n), <<Pos(Zero), Pos(One)>>, <<Pos(Zero), Pos(Four)>>).v
scaleSkew(sk) == Skewed(sk, clip(Pos(sk.v), <<Pos(Zero), Pos(One)>>).v)

\* the draws a generator may be asked for until one is not 0
MaxRetry == 3

\* while (u === 0) u = uniformGenerator.random(), r being the first draw
RECURSIVE Retry(_, _)
Retry(r, fuel) ==
  IF r.value = Zero /\ fuel > 1 THEN Retry(random(r), fuel - 1) ELSE r
NonZero(g, fuel) == Retry(random(g), fuel)

\* u and v with the generator as it is after u: v is drawn elsewhere
PairAfterFirst(ru, rv) ==
  [mt |-> ru.mt, mti |-> ru.mti, u |-> ru.value, v |-> rv.value]
\* u and v: the generator after both, with both
Pair(ru, rv) == [mt |-> rv.mt, mti |-> rv.mti, u |-> ru.value, v |-> rv.value]
Second(ru) == Pair(ru, NonZero(ru, MaxRetry))
First(g) == Second(NonZero(g, MaxRetry))

\* exp(-k * k / 2) for k = 1 .. 7
ExpTable ==
  <<
     [d |-> <<6, 0, 6, 5, 3, 0, 6, 5, 9, 7, 1, 2, 6, 3, 3, 4>>, e |-> 0],
     [d |-> <<1, 3, 5, 3, 3, 5, 2, 8, 3, 2, 3, 6, 6, 1, 2, 7>>, e |-> 0],
     [d |-> <<1, 1, 1, 0, 8, 9, 9, 6, 5, 3, 8, 2, 4, 2, 3, 0, 6>>, e |-> -1],
     [d |-> <<3, 3, 5, 4, 6, 2, 6, 2, 7, 9, 0, 2, 5, 1, 1, 8, 5>>, e |-> -3],
     [d |-> <<3, 7, 2, 6, 6, 5, 3, 1, 7, 2, 0, 7, 8, 6, 7, 1>>, e |-> -5],
     [d |-> <<1, 5, 2, 2, 9, 9, 7, 9, 7, 4, 4, 7, 1, 2, 6, 3>>, e |-> -7],
     [d |-> <<2, 2, 8, 9, 7, 3, 4, 8, 4, 5, 6, 4, 5, 5, 5, 3>>, e |-> -10] >>

\* Math.sqrt(-2.0 * Math.log(u)) is at most k when exp(-k * k / 2) <= u
ZBound(u) ==
  IF u = One THEN 0
  ELSE CHOOSE k \in 1..8 :
         /\ k <= Len(ExpTable) => LessEq(ExpTable[k], u)
         /\ \A j \in 1..(k - 1) : ~LessEq(ExpTable[j], u)

\* Math.sqrt(-2.0 * Math.log(u)) * Math.cos(2.0 * Math.PI * v) is not
\* computed: it is a number between -ZBound(u) and ZBound(u), of which
\* the model takes the two ends and 0
BoxMuller(u, v) ==
  {Skew(neg, NumOf(m)) : neg \in BOOLEAN, m \in {0, ZBound(u)}}

\* fix(num / 10.0 + 0.5) for num = [neg, v]
RecentredBy(neg, tenth) ==
  IF ~neg THEN Skew(FALSE, floatingPointFix(Plus(tenth, Half)))
  ELSE IF LessEq(tenth, Half)
  THEN Skew(FALSE, floatingPointFix(Minus(Half, tenth)))
  ELSE Skew(TRUE, floatingPointFix(Minus(tenth, Half)))
Recentred(num) == RecentredBy(num.neg, Over(floatingPointFix(num.v), Ten))

\* x * x * ... * x, k times
RECURSIVE Power(_, _)
Power(x, k) == IF k = 0 THEN One ELSE Times(Power(x, k - 1), x)

\* Math.pow(x, y) for x in [0, 1] and 0 <= y <= 4: the power for an
\* integer y; for another y it is not computed, it is a number between
\* the powers with the integers around y, of which the model takes both
Floor(y) == CHOOSE k \in 0..4 : LessEq(NumOf(k), y) /\ Less(y, NumOf(k + 1))
PowAround(x, y, k) ==
  IF y = NumOf(k) THEN {Power(x, k)} ELSE {Power(x, k), Power(x, k + 1)}
MathPow(x, y) == PowAround(x, y, Floor(y))

\* the depth of resampling the model follows
MaxResample == 2

\* KDGaussian(uniformGenerator, skew) on the generator g: the outcomes
\* [mt, mti, value, again], the generator afterwards, the value and
\* whether the sample was taken again.  A sample outside [0, 1] is
\* replaced by KDGaussian(new KDUniform(), skew) with the scaled skew.
RECURSIVE KDGaussian(_, _, _)
\* if (num > 1 || num < 0) num = Number(KDGaussian(new KDUniform(), skew))
Resampled(skew, depth) ==
  IF depth = 0 THEN {}
  ELSE UNION {{r.value : r \in KDGaussian(fresh, Skew(FALSE, skew), depth - 1)} :
                fresh \in NewKDUniform(NullArg)}
\* the range check that only looks below 0
KeptBelowOnly(num, skew, depth) ==
  IF num.neg
  THEN {[v |-> x, again |-> TRUE] : x \in Resampled(skew, depth)}
  ELSE {[v |-> num.v, again |-> FALSE]}
Kept(num, skew, depth) ==
  IF num.neg \/ Less(One, num.v)
  THEN {[v |-> x, again |-> TRUE] : x \in Resampled(skew, depth)}
  ELSE {[v |-> num.v, again |-> FALSE]}
\* fix(Math.pow(num, skew)) for every num the draws uv may give
Sampled(uv, skew, depth) ==
  UNION {UNION {{[mt |-> uv.mt, mti |-> uv.mti,
                  value |-> floatingPointFix(p), again |-> k.again] :
                   p \in MathPow(k.v, skew)} :
                  k \in Kept(Recentred(z), skew, depth)} :
           z \in BoxMuller(uv.u, uv.v)}
KDGaussian(g, skew0, depth) == Sampled(First(g), scaleSkew(skew0), depth)

(***************************************************************************)
(* KDElemstats                                                             *)
(***************************************************************************)
\* operator / with a positive integer as the divisor: the digits of the
\* long division of the digits d by n, k of them, the remainder so far r
RECURSIVE DivDigits(_, _, _, _)
DivDigits(d, n, r, k) ==
  IF k = 0 THEN <<>>
  ELSE LET cur == r * 10 + (IF d = <<>> THEN 0 ELSE Head(d))
       IN <<cur \div n>> \o
          DivDigits(IF d = <<>> THEN <<>> ELSE Tail(d), n, cur % n, k - 1)
OverInt(x, n) ==
  IF x = NaN THEN NaN
  ELSE IF x = Zero THEN Zero
  ELSE Rounded(Norm(DivDigits(x.d, n, 0, Len(x.d) + Precision + 2), x.e))

\* arr.reduce((previous, current) => (current += previous)) of an array
\* that is not empty: the sum of the first k elements
RECURSIVE Sum(_, _)
Sum(arr, k) == IF k = 1 THEN arr[1] ELSE Plus(arr[k], Sum(arr, k - 1))

\* KDElemstats.mean(arr): [err, val], the error thrown or "none" and the
\* value returned.  reduce without an initial value throws a TypeError
\* on an empty array.  The quotient is rounded to Precision digits.
mean(arr) ==
  IF arr = <<>> THEN [err |-> "TypeError", val |-> NaN]
  ELSE [err |-> "none",
        val |-> floatingPointFix(OverInt(Sum(arr, Len(arr)), Len(arr)))]

\* arr.sort((a, b) => a - b): x put into the sorted s, after its equals
RECURSIVE Insert(_, _)
Insert(s, x) ==
  IF s = <<>> THEN <<x>>
  ELSE IF Less(x, Head(s)) THEN <<x>> \o s
  ELSE <<Head(s)>> \o Insert(Tail(s), x)
RECURSIVE Sorted(_)
Sorted(arr) ==
  IF arr = <<>> THEN <<>>
  ELSE Insert(Sorted(SubSeq(arr, 1, Len(arr) - 1)), arr[Len(arr)])

\* KDElemstats.median(arr): the mean of the two middle elements of the
\* sorted array, of an empty array undefined + undefined, which is NaN
median(arr) ==
  IF arr = <<>> THEN NaN
  ELSE floatingPointFix(OverInt(
         Plus(Sorted(arr)[((Len(arr) - 1) \div 2) + 1],
              Sorted(arr)[(Len(arr) \div 2) + 1]), 2))

\* counts[number] is an element of the array counts when number is an
\* array index, an integer from 0 to 2^32 - 2, and a property of another
\* name otherwise, which counts.forEach does not visit
IsIndex(x) ==
  /\ x # NaN
  /\ Len(x.d) <= x.e
  /\ Less(x, [d |-> <<4, 2, 9, 4, 9, 6, 7, 2, 9, 5>>, e |-> 10])
\* counts[x] after arr.forEach, and max
Count(arr, x) == Cardinality({k \in 1..Len(arr) : arr[k] = x})
MaxCount(arr) ==
  CHOOSE c \in 0..Len(arr) :
    /\ \A k \in 1..Len(arr) : Count(arr, arr[k]) <= c
    /\ c = 0 \/ \E k \in 1..Len(arr) : Count(arr, arr[k]) = c
\* the elements of the ascending s, each of them once
RECURSIVE Once(_)
Once(s) ==
  IF Len(s) < 2 THEN s
  ELSE IF s[1] = s[2] THEN Once(Tail(s))
  ELSE <<s[1]>> \o Once(Tail(s))
\* counts.forEach: the indices of counts in ascending order whose count is max
Pushed(arr, s) ==
  [k \in 1..Len(s) |-> floatingPointFix(s[k])]
\* KDElemstats.modes(arr)
modes(arr) ==
  Pushed(arr, SelectSeq(Once(Sorted(arr)),
                        LAMBDA x : IsIndex(x) /\ Count(arr, x) = MaxCount(arr)))

\* the digits of the square root of 0.m, k more of them after the digits
\* s: the largest digit whose square does not exceed 0.m
SquareOf(s) == Norm(MulDigits(s, s), Len(MulDigits(s, s)) - 2 * Len(s))
RECURSIVE RootDigits(_, _)
RootDigits(m, k) ==
  IF k = 0 THEN <<>>
  ELSE LET s == RootDigits(m, k - 1)
       IN IF Len(s) < k - 1 THEN s
          ELSE Append(s, CHOOSE q \in 0..9 :
                           /\ LessEq(SquareOf(Append(s, q)), m)
                           /\ q = 9 \/ ~LessEq(SquareOf(Append(s, q + 1)), m))
\* Math.sqrt(x) for x >= 0, rounded to Precision digits: the exponent is
\* made even first
MathSqrt(x) ==
  IF x = NaN THEN NaN
  ELSE IF x = Zero THEN Zero
  ELSE LET d == IF x.e % 2 = 0 THEN x.d ELSE <<0>> \o x.d
           e == IF x.e % 2 = 0 THEN x.e ELSE x.e + 1
       IN Rounded(Norm(RootDigits(Norm(d, 0), Precision + 1), e \div 2))

\* Math.max(...arr) of an array that is not empty: the greatest of the
\* first k elements
RECURSIVE MaxOf(_, _)
MaxOf(arr, k) ==
  IF k = 1 THEN arr[1]
  ELSE IF arr[k] = NaN \/ MaxOf(arr, k - 1) = NaN THEN NaN
  ELSE IF Less(MaxOf(arr, k - 1), arr[k]) THEN arr[k] ELSE MaxOf(arr, k - 1)

\* arr.map((value) => fix(fix(value - avg) * fix(value - avg)))
sqDiffs(arr, avg) ==
  [k \in 1..Len(arr) |->
     floatingPointFix(Times(
       floatingPointFix(SignedMinus(Pos(arr[k]), Pos(avg)).v),
       floatingPointFix(SignedMinus(Pos(arr[k]), Pos(avg)).v)))]
avgSqRt(arr) ==
  LET m == mean(sqDiffs(arr, mean(arr).val)).val
  IN IF m = NaN THEN NaN ELSE floatingPointFix(MathSqrt(m))
\* KDElemstats.stdDev(arr): [err, val]; mean throws on an empty array, and
\* the scaled NaN is NaN
stdDev(arr) ==
  IF arr = <<>> THEN [err |-> "TypeError", val |-> NaN]
  ELSE LET r == avgSqRt(arr)
       IN IF r = NaN THEN [err |-> "none", val |-> NaN]
          ELSE [err |-> "none",
                val |-> scale(Pos(r),
                              <<Pos(Zero), Pos(MaxOf(arr, Len(arr)))>>,
                              <<Pos(Zero), Pos(One)>>).v]

(***************************************************************************)
(* KDRoll                                                                  *)
(*                                                                         *)
(* The state is the KDRoll instances constructed, numbered from 1: of      *)
(* instance i, uniform[i] is its KDUniform [mt, mti, seed], history[i]     *)
(* its KDHistory array and max[i] the capacity of that history.  ret is    *)
(* the last call: the instance, the method, its argument with the type of  *)
(* the argument, and the value returned.                                   *)
(* ghost[i] records of instance i what the program does not keep: left is  *)
(* the number of calls the instance still takes, out is what the draws     *)
(* returned since the generator was last initialised, since is what they   *)
(* returned since the capacity was last set or the history last emptied,   *)
(* arg is the argument the generator was last initialised with, via the    *)
(* call that did it, was the argument it replaced, dirty whether draws had  *)
(* been made before and held the length of the history when that call was *)
(* made.                                                                   *)
(* console is what the last call wrote to the console and host the host    *)
(* the program runs on.  snapshot is the array a caller holds that         *)
(* history() returned last: the instance i that returned it (0 for none),  *)
(* its elements val, and same, whether it is the very array the instance   *)
(* keeps its history in.                                                   *)
(***************************************************************************)
VARIABLES uniform, history, max, ret, ghost, console, host, snapshot
vars == <<uniform, history, max, ret, ghost, console, host, snapshot>>

\* the calls an instance takes
MaxCalls == 3
\* the instances a program constructs at most
Instances == {1, 2}
\* instance i has been constructed and takes another call
Takes(i) == i \in DOMAIN uniform /\ ghost[i].left > 0

\* KDRoll.history(): the first element of every element of the history
History(i) == [k \in 1..Len(history[i]) |-> history[i][k][1]]

\* the call op(arg) of instance i has returned val
Returned(i, op, arg, val) ==
  [i |-> i, op |-> op, t |-> arg.t, arg |-> arg, val |-> val, err |-> "none"]
\* the call op(arg) of instance i has thrown err
Thrown(i, op, arg, err) ==
  [i |-> i, op |-> op, t |-> arg.t, arg |-> arg, val |-> NaN, err |-> err]

\* no array of a history is held
NoSnapshot == [i |-> 0, val |-> <<>>, same |-> FALSE]
\* the array held once the history of instance i has changed in place to
\* h: it has changed as well if it is that array
Held(i, h) ==
  IF snapshot.i = i /\ snapshot.same
  THEN [snapshot EXCEPT !.val = [k \in 1..Len(h) |-> h[k][1]]]
  ELSE snapshot
\* the array held once instance i keeps its history in a new KDHistory
Detached(i) ==
  IF snapshot.i = i THEN [snapshot EXCEPT !.same = FALSE] ELSE snapshot

\* what the constructions new KDRoll(seeds[i]) write to the console on h
RECURSIVE ConstructedConsole(_, _, _)
ConstructedConsole(h, seeds, n) ==
  IF n = 0 THEN <<>>
  ELSE ConstructedConsole(h, seeds, n - 1) \o initConsole(h, seeds[n])

\* new KDRoll(seeds[i]) for every i, on the host h, has left the generators
\* gs; every instance i takes calls[i] calls
ConstructedOn(h, seeds, gs, calls) ==
  /\ host = h
  /\ console = ConstructedConsole(h, seeds, Len(seeds))
  /\ snapshot = NoSnapshot
  /\ uniform = gs
  /\ history = [i \in DOMAIN seeds |-> <<>>]
  /\ max = [i \in DOMAIN seeds |-> DefaultMax]
  /\ ret = Returned(0, "new", Undefined, Zero)
  /\ ghost = [i \in DOMAIN seeds |->
                [left |-> calls[i], out |-> <<>>, since |-> <<>>,
                 arg |-> seeds[i], via |-> "new", was |-> Undefined,
                 dirty |-> FALSE, held |-> 0]]
\* the same on a host that has window.crypto
Constructed(seeds, gs, calls) == ConstructedOn("window.crypto", seeds, gs, calls)

\* clearHistory that leaves the new KDHistory its capacity
ClearHistoryDefault(i) ==
  /\ Takes(i)
  /\ history' = [history EXCEPT ![i] = <<>>]
  /\ max' = [max EXCEPT ![i] = DefaultMax]
  /\ ret' = Returned(i, "clearHistory", Undefined, Zero)
  /\ ghost' = [ghost EXCEPT ![i] = [@ EXCEPT !.left = @ - 1, !.since = <<>>]]
  /\ console' = <<>>
  /\ snapshot' = Detached(i)
  /\ UNCHANGED <<uniform, host>>

\* KDRoll.clearHistory: a new KDHistory, given the capacity of the old one
ClearHistory(i) ==
  /\ Takes(i)
  /\ history' = [history EXCEPT ![i] = <<>>]
  /\ max' = [max EXCEPT ![i] = KDHistoryMax(DefaultMax, SizeArg(max[i]))]
  /\ ret' = Returned(i, "clearHistory", Undefined, Zero)
  /\ ghost' = [ghost EXCEPT ![i] = [@ EXCEPT !.left = @ - 1, !.since = <<>>]]
  /\ console' = <<>>
  /\ snapshot' = Detached(i)
  /\ UNCHANGED <<uniform, host>>

\* seed(seed) without the call of clearHistory
SeedKeeping(i, seed) ==
  /\ seed.t # "undefined"
  /\ Takes(i)
  /\ \E g \in KDUniformSeed(uniform[i], seed) :
       /\ uniform' = [uniform EXCEPT ![i] = g]
       /\ ret' = Returned(i, "seed", seed, g.seed)
  /\ ghost' = [ghost EXCEPT ![i] =
                 [@ EXCEPT !.left = @ - 1, !.held = Len(history[i])]]
  /\ console' = KDUniformSeedConsole(host, seed)
  /\ UNCHANGED <<history, max, host, snapshot>>

\* KDRoll.seed(seed) with an argument: clearHistory, uniform.seed(seed),
\* and the seed of the generator is returned
Seed(i, seed) ==
  /\ seed.t # "undefined"
  /\ Takes(i)
  /\ \E g \in KDUniformSeed(uniform[i], seed) :
       /\ uniform' = [uniform EXCEPT ![i] = g]
       /\ ret' = Returned(i, "seed", seed, g.seed)
  /\ history' = [history EXCEPT ![i] = <<>>]
  /\ max' = [max EXCEPT ![i] = KDHistoryMax(DefaultMax, SizeArg(max[i]))]
  /\ ghost' = [ghost EXCEPT ![i] =
                 IF seed.t = "null"
                 THEN [@ EXCEPT !.left = @ - 1, !.since = <<>>,
                                !.held = Len(history[i])]
                 ELSE [@ EXCEPT !.left = @ - 1, !.since = <<>>, !.out = <<>>,
                                !.arg = seed, !.via = "seed", !.was = ghost[i].arg,
                                !.dirty = (ghost[i].out # <<>>),
                                !.held = Len(history[i])]]
  /\ console' = KDUniformSeedConsole(host, seed)
  /\ snapshot' = Detached(i)
  /\ UNCHANGED host

\* seed() that calls clearHistory as seed(seed) does
SeedGetClearing(i) ==
  /\ Takes(i)
  /\ ret' = Returned(i, "seed()", Undefined, uniform[i].seed)
  /\ history' = [history EXCEPT ![i] = <<>>]
  /\ ghost' = [ghost EXCEPT ![i] = [@ EXCEPT !.left = @ - 1, !.since = <<>>]]
  /\ console' = <<>>
  /\ snapshot' = Detached(i)
  /\ UNCHANGED <<uniform, max, host>>

\* KDRoll.seed(): the seed of the generator
SeedGet(i) ==
  /\ Takes(i)
  /\ ret' = Returned(i, "seed()", Undefined, uniform[i].seed)
  /\ ghost' = [ghost EXCEPT ![i].left = @ - 1]
  /\ console' = <<>>
  /\ UNCHANGED <<uniform, history, max, host, snapshot>>

\* KDRoll.maxHistory(size); the capacity returned is the safe integer
\* [t, v]
MaxHistory(i, size) ==
  /\ Takes(i)
  /\ max' = [max EXCEPT ![i] = KDHistoryMax(max[i], size)]
  /\ ret' = Returned(i, "maxHistory", size, SizeArg(KDHistoryMax(max[i], size)))
  /\ ghost' = [ghost EXCEPT ![i] =
                 IF size.t = "integer" THEN [@ EXCEPT !.left = @ - 1, !.since = <<>>]
                 ELSE [@ EXCEPT !.left = @ - 1]]
  /\ console' = KDHistoryMaxConsole(size)
  /\ UNCHANGED <<uniform, history, host, snapshot>>

\* what a draw r = [mt, mti, value] leaves: the generator, and the value
\* in the history
Drawn(i, op, arg, r) ==
  /\ uniform' = [uniform EXCEPT ![i] = [mt |-> r.mt, mti |-> r.mti, seed |-> @.seed]]
  /\ history' = [history EXCEPT ![i] = push(@, max[i], <<r.value>>)]
  /\ ret' = Returned(i, op, arg, r.value)
  /\ ghost' = [ghost EXCEPT ![i] =
                 [@ EXCEPT !.left = @ - 1, !.out = Append(@, r.value),
                           !.since = Append(@, r.value)]]
  /\ console' = <<>>
  /\ snapshot' = Held(i, push(history[i], max[i], <<r.value>>))
  /\ UNCHANGED <<max, host>>

\* KDRoll.uniform and KDRoll.random
Uniform(i) ==
  /\ Takes(i)
  /\ Drawn(i, "uniform", Undefined, random(uniform[i]))

\* KDRoll.d(sides) for sides = [t, v], t its type and v the number when
\* t = "number": new KDNumber(uniform.random()) scaled from [0, 1] to
\* [1, sides] and rounded, or NaN for what is not a number
NumberSides(v) == [t |-> "number", v |-> v]
OtherSides(t) == [t |-> t, v |-> Zero]
Rolled(r, sides) ==
  [mt |-> r.mt, mti |-> r.mti,
   value |-> round(scale(Pos(r.value), <<Pos(Zero), Pos(One)>>,
                         <<Pos(One), Pos(sides)>>), 0).v]
\* d(sides) with the value returned pushed onto the history on both paths
DPushing(i, sides) ==
  IF sides.t = "number"
  THEN /\ Takes(i)
       /\ Drawn(i, "d", sides, Rolled(random(uniform[i]), sides.v))
  ELSE /\ Takes(i)
       /\ ret' = Returned(i, "d", sides, NaN)
       /\ history' = [history EXCEPT ![i] = push(@, max[i], <<NaN>>)]
       /\ ghost' = [ghost EXCEPT ![i].left = @ - 1]
       /\ console' = <<Log("d", "Error: Sides must be a number.")>>
       /\ snapshot' = Held(i, push(history[i], max[i], <<NaN>>))
       /\ UNCHANGED <<uniform, max, host>>
D(i, sides) ==
  IF sides.t = "number"
  THEN /\ Takes(i)
       /\ Drawn(i, "d", sides, Rolled(random(uniform[i]), sides.v))
  ELSE /\ Takes(i)
       /\ ret' = Returned(i, "d", sides, NaN)
       /\ ghost' = [ghost EXCEPT ![i].left = @ - 1]
       /\ console' = <<Log("d", "Error: Sides must be a number.")>>
       /\ UNCHANGED <<uniform, history, max, host, snapshot>>

\* KDRoll.gaussian(skew)
Gaussian(i, skew) ==
  /\ Takes(i)
  /\ \E r \in KDGaussian(uniform[i], skew, MaxResample) :
       Drawn(i, "gaussian", [t |-> "number", v |-> skew, again |-> r.again], r)

\* history() that returns the array the history is kept in
HistoryGetSame(i) ==
  /\ Takes(i)
  /\ snapshot' = [i |-> i, val |-> History(i), same |-> TRUE]
  /\ ret' = Returned(i, "history", Undefined, [t |-> "array", a |-> History(i)])
  /\ console' = <<>>
  /\ ghost' = [ghost EXCEPT ![i].left = @ - 1]
  /\ UNCHANGED <<uniform, history, max, host>>

\* KDRoll.history(): history.map((x) => x[0]), a new array, which the
\* caller holds from now on
HistoryGet(i) ==
  /\ Takes(i)
  /\ snapshot' = [i |-> i, val |-> History(i), same |-> FALSE]
  /\ ret' = Returned(i, "history", Undefined, [t |-> "array", a |-> History(i)])
  /\ console' = <<>>
  /\ ghost' = [ghost EXCEPT ![i].left = @ - 1]
  /\ UNCHANGED <<uniform, history, max, host>>

\* what a caller does to the array it holds: push(0), length = 0,
\* [0] = NaN and sort((a, b) => a - b)
Writes == {"push", "length", "index", "sort"}
Written(val, w) ==
  IF w = "push" THEN Append(val, Zero)
  ELSE IF w = "length" THEN <<>>
  ELSE IF w = "index" THEN IF val = <<>> THEN <<NaN>> ELSE [val EXCEPT ![1] = NaN]
  ELSE Sorted(val)

\* the caller writes to the array it holds; the write is one to the
\* history if that is the same array
Write(w) ==
  /\ snapshot.i # 0
  /\ Takes(snapshot.i)
  /\ snapshot' = [snapshot EXCEPT !.val = Written(snapshot.val, w)]
  /\ history' = IF snapshot.same
                THEN [history EXCEPT ![snapshot.i] =
                        [k \in 1..Len(Written(snapshot.val, w)) |->
                           <<Written(snapshot.val, w)[k]>>]]
                ELSE history
  /\ ret' = Returned(snapshot.i, w, Undefined, Zero)
  /\ console' = <<>>
  /\ ghost' = [ghost EXCEPT ![snapshot.i].left = @ - 1]
  /\ UNCHANGED <<uniform, max, host>>

\* KDRoll.mean() without an argument: KDElemstats.mean(this.history())
Mean(i) ==
  /\ Takes(i)
  /\ ret' = IF mean(History(i)).err = "none"
            THEN Returned(i, "mean", Undefined, mean(History(i)).val)
            ELSE Thrown(i, "mean", Undefined, mean(History(i)).err)
  /\ console' = <<>>
  /\ ghost' = [ghost EXCEPT ![i].left = @ - 1]
  /\ UNCHANGED <<uniform, history, max, host, snapshot>>

\* median() that sorts the history itself
MedianInPlace(i) ==
  /\ Takes(i)
  /\ ret' = Returned(i, "median", Undefined, median(History(i)))
  /\ history' = [history EXCEPT ![i] =
                   [k \in 1..Len(@) |-> <<Sorted(History(i))[k]>>]]
  /\ console' = <<>>
  /\ ghost' = [ghost EXCEPT ![i].left = @ - 1]
  /\ UNCHANGED <<uniform, max, host, snapshot>>

\* KDRoll.median() without an argument: KDElemstats.median(this.history()),
\* which sorts the array that history() has made
Median(i) ==
  /\ Takes(i)
  /\ ret' = Returned(i, "median", Undefined, median(History(i)))
  /\ console' = <<>>
  /\ ghost' = [ghost EXCEPT ![i].left = @ - 1]
  /\ UNCHANGED <<uniform, history, max, host, snapshot>>

\* KDRoll.modes(arr): KDElemstats.modes(arr ? arr : this.history())
Modes(i, arr) ==
  /\ Takes(i)
  /\ ret' = Returned(i, "modes", arr,
                     [t |-> "array",
                      a |-> modes(IF arr.t = "array" THEN arr.a
                                  ELSE History(i))])
  /\ console' = <<>>
  /\ ghost' = [ghost EXCEPT ![i].left = @ - 1]
  /\ UNCHANGED <<uniform, history, max, host, snapshot>>

\* KDRoll.standardDeviation() without an argument:
\* KDElemstats.stdDev(this.history())
StandardDeviation(i) ==
  /\ Takes(i)
  /\ ret' = IF stdDev(History(i)).err = "none"
            THEN Returned(i, "standardDeviation", Undefined, stdDev(History(i)).val)
            ELSE Thrown(i, "standardDeviation", Undefined, stdDev(History(i)).err)
  /\ console' = <<>>
  /\ ghost' = [ghost EXCEPT ![i].left = @ - 1]
  /\ UNCHANGED <<uniform, history, max, host, snapshot>>

\* the arguments the calls are made with
InitSeeds == {NumberArg(Number(FALSE, Int53(5489), 0))}
SeedArgs ==
  { NumberArg(Number(FALSE, Int53(2114088), 0)),
    NumberArg(NotFinite("NaN", FALSE)),
    NullArg }
SizeArgs == {SizeArg(-1), SizeArg(0), SizeArg(1), SizeArg(2), NoSize, OtherSize("string")}
DieArgs == {NumberSides(NumOf(6)), OtherSides("string"), OtherSides("undefined")}

SkewArgs == {Skew(FALSE, Zero)}

Init == \E seed \in InitSeeds : \E g \in NewKDUniform(seed) :
          Constructed(<<seed>>, <<g>>, <<MaxCalls>>)

Next ==
  \/ \E i \in Instances : \E seed \in SeedArgs : Seed(i, seed)
  \/ \E i \in Instances : SeedGet(i)
  \/ \E i \in Instances : \E size \in SizeArgs : MaxHistory(i, size)
  \/ \E i \in Instances : ClearHistory(i)
  \/ \E i \in Instances : Uniform(i)
  \/ \E i \in Instances : \E sides \in DieArgs : D(i, sides)
  \/ \E i \in Instances : \E skew \in SkewArgs : Gaussian(i, skew)

Spec == Init /\ [][Next]_vars

(***************************************************************************)
(* The history and its capacity                                            *)
(***************************************************************************)
\* the last c elements of s, none for a c below 1
Latest(s, c) == IF c <= 0 THEN <<>> ELSE SubSeq(s, Len(s) - c + 1, Len(s))

\* C1: in every reachable state, whatever draws and calls of maxHistory,
\* clearHistory and seed came before and whatever capacity was accepted,
\* history().length <= maxHistory().  Stated of the capacities from 0 on.
HistoryWithinCapacity ==
  \A i \in DOMAIN uniform : max[i] >= 0 => Len(History(i)) <= max[i]

\* C2: once maxHistory(C) has set the capacity and more than C draws have
\* been made since, history() is exactly the C most recent results in the
\* order drawn.  Stated of the capacities C from 0 on.
HistoryIsTheLatest ==
  \A i \in DOMAIN uniform :
    (max[i] >= 0 /\ Len(ghost[i].since) > max[i]) =>
      History(i) = Latest(ghost[i].since, max[i])

\* C5: a call seed(value) with an argument leaves history() empty and
\* maxHistory() as it was, whatever the history held and whether the value
\* was accepted or replaced by a random seed.
SeedEmptiesHistory ==
  [][ret'.op = "seed" =>
       /\ history'[ret'.i] = <<>>
       /\ max'[ret'.i] = max[ret'.i]]_vars
\* seed(NaN) was replaced by a random seed array on an instance whose
\* history held results and whose capacity had been changed
SeedEmptiedHistory ==
  /\ ret.op = "seed"
  /\ ret.t = "number"
  /\ ret.val.t = "array"
  /\ ghost[ret.i].held > 0
  /\ max[ret.i] # DefaultMax
  /\ history[ret.i] = <<>>

\* C9: d(sides) with sides that is not a number returns NaN and leaves the
\* history (and the generator) as it was.
DieOfNoNumber ==
  [][(ret'.op = "d" /\ ret'.t # "number") =>
       /\ ret'.val = NaN
       /\ history' = history
       /\ uniform' = uniform]_vars
\* d("string") has returned NaN on an instance whose history holds a result
DieOfNoNumberReturned ==
  /\ ret.op = "d"
  /\ ret.t = "string"
  /\ ret.val = NaN
  /\ Len(history[ret.i]) > 0

(***************************************************************************)
(* The interval of uniform                                                 *)
(***************************************************************************)
\* C6: every value uniform()/random() returns is >= 0 and strictly less
\* than 1.
UniformBelowOne ==
  ret.op = "uniform" => (LessEq(Zero, ret.val) /\ Less(ret.val, One))
\* C6 as amended: every value uniform()/random() returns is >= 0 and <= 1.
UniformAtMostOne ==
  ret.op = "uniform" => (LessEq(Zero, ret.val) /\ LessEq(ret.val, One))
\* uniform() has returned 1
UniformReturnedOne ==
  ret.op = "uniform" /\ ret.val = One /\ History(ret.i) = <<One>>

(***************************************************************************)
(* Two instances and their seeds                                           *)
(***************************************************************************)
\* the calls the first of two instances takes, one more than the second
PairCalls == 3
\* the seeds the two instances are constructed with, and the one of them
\* seed is called with: withArray starts with withInt
PairSeeds ==
  { NumberArg(Number(FALSE, Int53(5489), 0)),
    ArrayArg(<<Number(FALSE, Int53(291), 0), Number(FALSE, Int53(564), 0)>>) }
PairSeedArgs == {seed \in PairSeeds : seed.t = "array"}

InitPair ==
  \E s1 \in PairSeeds : \E s2 \in PairSeeds :
    \E g1 \in NewKDUniform(s1) : \E g2 \in NewKDUniform(s2) :
      Constructed(<<s1, s2>>, <<g1, g2>>, <<PairCalls, PairCalls - 1>>)

NextPair ==
  \/ \E i \in Instances : Uniform(i)
  \/ \E i \in Instances : \E seed \in PairSeedArgs : Seed(i, seed)

SpecPair == InitPair /\ [][NextPair]_vars

\* sequences a and b are equal as far as both go
Agree(a, b) == \A k \in 1..Min(Len(a), Len(b)) : a[k] = b[k]
\* arg is an integer or an array of integers that init takes as the seed
Valid(arg) ==
  \/ arg.t = "number" /\ ensureUint(arg.n) # MinusOne
  \/ /\ arg.t = "array"
     /\ Len(arg.a) > 0
     /\ \A k \in 1..Len(arg.a) : ensureUint(arg.a[k]) # MinusOne

\* C3: two instances constructed with the same valid integer or array seed
\* return the same results for the same number of uniform()/random() calls.
SameSeedSameDraws ==
  \A i \in DOMAIN uniform : \A j \in DOMAIN uniform :
    ( /\ ghost[i].via = "new" /\ ghost[j].via = "new"
      /\ ghost[i].arg = ghost[j].arg
      /\ Valid(ghost[i].arg) ) =>
    Agree(ghost[i].out, ghost[j].out)
\* both instances were constructed with the same array and have drawn twice
SameSeedDrawnTwice ==
  /\ ghost[1].via = "new" /\ ghost[2].via = "new"
  /\ ghost[1].arg = ghost[2].arg
  /\ ghost[1].arg.t = "array"
  /\ Len(ghost[1].out) >= 2
  /\ ghost[1].out = ghost[2].out

\* C4: after seed(s) with a valid seed s, whatever the instance was seeded
\* with and had drawn before, its draws are those of an instance newly
\* constructed with s.
ReseededLikeNew ==
  \A i \in DOMAIN uniform : \A j \in DOMAIN uniform :
    ( /\ ghost[i].via = "seed" /\ ghost[j].via = "new"
      /\ ghost[i].arg = ghost[j].arg
      /\ Valid(ghost[i].arg) ) =>
    Agree(ghost[i].out, ghost[j].out)
\* an instance constructed with another seed has drawn, was seeded and has
\* drawn again what the instance constructed with that seed has drawn
ReseededDrawn ==
  \E i \in DOMAIN uniform : \E j \in DOMAIN uniform :
    /\ ghost[i].via = "seed" /\ ghost[j].via = "new"
    /\ ghost[i].arg = ghost[j].arg
    /\ ghost[i].was # ghost[i].arg
    /\ ghost[i].dirty
    /\ Len(ghost[i].out) >= 1
    /\ ghost[i].out = ghost[j].out

(***************************************************************************)
(* The seed as it is kept                                                  *)
(***************************************************************************)
\* the calls the instance takes
SeedCalls == 2
\* 123.456, -123, [123.456, -456.789], 2.5, -0.5, 2^32 + 5, NaN, 2^53, []
Seed123 == NumberArg(Number(FALSE, Int53(123), 456))
SeedMinus123 == NumberArg(Number(TRUE, Int53(123), 0))
SeedPair == ArrayArg(<<Number(FALSE, Int53(123), 456), Number(TRUE, Int53(456), 789)>>)
NormSeeds ==
  { Seed123, SeedMinus123, SeedPair,
    NumberArg(Number(FALSE, Int53(2), 500)),
    NumberArg(Number(TRUE, Int53(0), 500)),
    NumberArg(Number(FALSE, <<1, 0, 5>>, 0)),
    NumberArg(NotFinite("NaN", FALSE)),
    NumberArg(Number(FALSE, <<TopUnsafe, 0, 0>>, 0)),
    ArrayArg(<<>>) }
NormInitSeeds == {Seed123, SeedPair, NumberArg(NotFinite("NaN", FALSE))}

InitSeed ==
  \E seed \in NormInitSeeds : \E g \in NewKDUniform(seed) :
    Constructed(<<seed>>, <<g>>, <<SeedCalls>>)

NextSeed ==
  \/ \E i \in Instances : \E seed \in NormSeeds : Seed(i, seed)
  \/ \E i \in Instances : SeedGet(i)

SpecSeed == InitSeed /\ [][NextSeed]_vars

\* the magnitude of num rounded to an integer, a half rounded up
HalfUp(num) == IF num.frac >= 500 THEN AddOne(num.int) ELSE num.int
\* the seed kept for the argument arg
Normal(arg) ==
  [t |-> arg.t,
   a |-> IF arg.t = "number" THEN <<HalfUp(arg.n)>>
         ELSE [k \in 1..Len(arg.a) |-> HalfUp(arg.a[k])]]
\* the argument that is the seed kept for arg
NormalArg(arg) ==
  IF arg.t = "number" THEN NumberArg(Number(FALSE, HalfUp(arg.n), 0))
  ELSE ArrayArg([k \in 1..Len(arg.a) |-> Number(FALSE, HalfUp(arg.a[k]), 0)])
\* the generator of instance i as init(arg) leaves it
Initialised(i, arg) ==
  \E g \in NewKDUniform(arg) : g.mt = uniform[i].mt /\ g.mti = uniform[i].mti

\* C10: seed(value) and the constructor keep, apply and report the seed
\* normalized: the absolute value of every number, rounded to an integer
\* with a half rounded up (123.456 -> 123, -123 -> 123,
\* [123.456, -456.789] -> [123, 457]); seed() returns that value.
SeedNormalized ==
  \A i \in DOMAIN uniform :
    Valid(ghost[i].arg) =>
      /\ uniform[i].seed = Normal(ghost[i].arg)
      /\ (ret.i = i /\ ret.op \in {"seed", "seed()"}) => ret.val = Normal(ghost[i].arg)
      /\ ghost[i].out = <<>> => Initialised(i, NormalArg(ghost[i].arg))
      /\ ghost[i].arg = Seed123 =>
           uniform[i].seed = [t |-> "number", a |-> <<Int53(123)>>]
      /\ ghost[i].arg = SeedMinus123 =>
           uniform[i].seed = [t |-> "number", a |-> <<Int53(123)>>]
      /\ ghost[i].arg = SeedPair =>
           uniform[i].seed = [t |-> "array", a |-> <<Int53(123), Int53(457)>>]
\* seed([123.456, -456.789]) on an instance constructed with 123.456, and
\* seed() has returned [123, 457]
SeedReported ==
  /\ ret.op = "seed()"
  /\ ret.val = [t |-> "array", a |-> <<Int53(123), Int53(457)>>]
  /\ ghost[ret.i].arg = SeedPair
  /\ ghost[ret.i].was = Seed123

\* the numbers of the argument arg
Components(arg) == IF arg.t = "number" THEN <<arg.n>> ELSE arg.a

DieCalls == 3
\* the sides: 1, 6, 20, 99, 1e22 and what is not a number
Sides ==
  { NumberSides(NumOf(1)), NumberSides(NumOf(6)), NumberSides(NumOf(20)),
    NumberSides(NumOf(99)), NumberSides([d |-> <<1>>, e |-> 23]),
    OtherSides("string") }
\* the seeds: the first draw is 0.814... after 5489 and 1 after 2114088
DieSeeds ==
  { NumberArg(Number(FALSE, Int53(5489), 0)),
    NumberArg(Number(FALSE, Int53(2114088), 0)) }

InitDie ==
  \E seed \in DieSeeds : \E g \in NewKDUniform(seed) :
    Constructed(<<seed>>, <<g>>, <<DieCalls>>)

NextDie ==
  \/ \E i \in Instances : \E sides \in Sides : D(i, sides)
  \/ \E i \in Instances : Uniform(i)

SpecDie == InitDie /\ [][NextDie]_vars

\* x is an integer
IsInteger(x) == x # NaN /\ Len(x.d) <= x.e

\* C8: for every integer sides >= 1, d(sides) returns an integer r with
\* 1 <= r <= sides.
DieWithinSides ==
  ( /\ ret.op = "d" /\ ret.t = "number"
    /\ IsInteger(ret.arg.v) /\ LessEq(One, ret.arg.v) ) =>
  ( /\ IsInteger(ret.val)
    /\ LessEq(One, ret.val)
    /\ LessEq(ret.val, ret.arg.v) )

(***************************************************************************)
(* The interval of gaussian                                                *)
(***************************************************************************)
\* the calls the instance takes
GaussCalls == 2
\* the skews: 0, -1, -0.5, 0.3, 0.5 and 1
Skews ==
  { Skew(FALSE, Zero), Skew(TRUE, One), Skew(TRUE, Half),
    Skew(FALSE, [d |-> <<3>>, e |-> 0]), Skew(FALSE, Half), Skew(FALSE, One) }
\* the seeds: after the second the first two draws are u = 9.6857...e-7
\* and v = 0.98023..., with which the sample is 5.222 / 10 + 0.5 > 1
GaussSeeds ==
  { NumberArg(Number(FALSE, Int53(5489), 0)),
    NumberArg(Number(FALSE, Int53(6082735), 0)) }

InitGauss ==
  \E seed \in GaussSeeds : \E g \in NewKDUniform(seed) :
    Constructed(<<seed>>, <<g>>, <<GaussCalls>>)

NextGauss ==
  \/ \E i \in Instances : \E skew \in Skews : Gaussian(i, skew)
  \/ \E i \in Instances : Uniform(i)

SpecGauss == InitGauss /\ [][NextGauss]_vars

\* C7: for every skew in [-1, 1], gaussian(skew) returns a value in
\* [0, 1], also when the first sample was outside [0, 1] and taken again.
GaussianInUnit ==
  ret.op = "gaussian" => (LessEq(Zero, ret.val) /\ LessEq(ret.val, One))
\* gaussian(0.5) has returned a value after the sample was taken again
GaussianTakenAgain ==
  /\ ret.op = "gaussian"
  /\ ret.arg.again
  /\ ret.arg.v = Skew(FALSE, Half)
  /\ History(ret.i) = <<ret.val>>

(***************************************************************************)
(* Seeds that are not taken                                                *)
(***************************************************************************)
\* the calls the instance takes
HostCalls == 2
\* 2^53, NaN, Infinity, [], [1, NaN], 'abc' and 7
HostSeeds ==
  { NumberArg(Number(FALSE, <<TopUnsafe, 0, 0>>, 0)),
    NumberArg(NotFinite("NaN", FALSE)),
    NumberArg(NotFinite("Infinity", FALSE)),
    ArrayArg(<<>>),
    ArrayArg(<<Number(FALSE, Int53(1), 0), NotFinite("NaN", FALSE)>>),
    OtherArg("string"),
    NumberArg(Number(FALSE, Int53(7), 0)) }

\* new KDRoll() on every host
InitHost ==
  \E h \in Hosts : \E g \in NewKDUniform(Undefined) :
    ConstructedOn(h, <<Undefined>>, <<g>>, <<HostCalls>>)

NextHost ==
  \/ \E i \in Instances : \E seed \in HostSeeds : Seed(i, seed)
  \/ \E i \in Instances : SeedGet(i)

SpecHost == InitHost /\ [][NextHost]_vars

\* arg is a number or an array of numbers that init does not take as the
\* seed
Rejected(arg) == arg.t \in {"number", "array"} /\ ~Valid(arg)
\* int is a safe integer that is not negative
SafeInteger(int) == int[1] >= 0 /\ int[1] < TopUnsafe

Refused(arg) == arg.t \notin {"undefined", "null"} /\ ~Valid(arg)

\* C13: every call seed(value) with a value that is not taken as the seed
\* (no number and no array of numbers, not safe, an empty array, an array
\* with NaN or Infinity) writes a diagnostic to the console when the random
\* seed is put in its place.
RejectionWritten ==
  (ret.op = "seed" /\ Refused(ret.arg)) => console # <<>>

\* the last call has drawn a random seed array: new KDRoll() or a call
\* seed(value) with a value that is not taken
RandomlySeeded ==
  \/ ret.op = "new" /\ \E i \in DOMAIN uniform : ~Valid(ghost[i].arg)
  \/ ret.op = "seed" /\ Refused(ret.arg)

\* C20: on a host without a secure source of randomness a random seed is
\* still drawn (the array is filled with Math.random), and every call
\* that draws one there writes a warning to the console.
FallbackWarned ==
  (RandomlySeeded /\ createRandomSeedOn(host).by = "Math.random") =>
    /\ ret.err = "none"
    /\ \E i \in DOMAIN uniform : uniform[i].seed.a \in createRandomSeedOn(host).seeds
    /\ \E k \in DOMAIN console : console[k].level = "warn"

(***************************************************************************)
(* The history and the calls                                               *)
(***************************************************************************)
\* C14: every call of uniform() or random(), gaussian(skew) and d(sides)
\* with a number appends exactly one element to the history, the value it
\* returns, which is therefore the last element of history() after the
\* call; the elements before it are those the history held, all of them
\* or all but the oldest; and a history that was below its capacity is
\* longer by exactly one.
DrawAppendsOne ==
  [][(ret'.op \in {"uniform", "gaussian"} \/ (ret'.op = "d" /\ ret'.t = "number")) =>
       LET i == ret'.i
           n == Len(history[i])
       IN /\ Len(history'[i]) >= 1
          /\ history'[i][Len(history'[i])] = <<ret'.val>>
          /\ \/ history'[i] = Append(history[i], <<ret'.val>>)
             \/ n > 0 /\ history'[i] = Append(Tail(history[i]), <<ret'.val>>)
          /\ n < max[i] => Len(history'[i]) = n + 1]_vars
\* gaussian(0) has returned the second element of a history below its
\* capacity
DrawAppended ==
  /\ ret.op = "gaussian"
  /\ max[ret.i] = DefaultMax
  /\ Len(History(ret.i)) = 2
  /\ History(ret.i)[2] = ret.val

\* C16: maxHistory(n) sets the capacity to n if n is a safe integer that
\* is not negative and leaves it as it was for every other argument; the
\* call returns the capacity in force after it.
CapacitySetIfNatural ==
  [][ret'.op = "maxHistory" =>
       /\ max'[ret'.i] = IF ret'.arg.t = "integer" /\ ret'.arg.v >= 0
                         THEN ret'.arg.v ELSE max[ret'.i]
       /\ ret'.val = SizeArg(max'[ret'.i])]_vars

\* C17: clearHistory() leaves the history empty and the capacity as it
\* was, the default or one that was set, whatever the history held.
ClearKeepsCapacity ==
  [][ret'.op = "clearHistory" =>
       /\ history'[ret'.i] = <<>>
       /\ max'[ret'.i] = max[ret'.i]]_vars
\* clearHistory() has emptied a history that held a draw, with the
\* capacity set to 2 before
ClearedWithCapacity ==
  /\ ret.op = "clearHistory"
  /\ max[ret.i] = 2
  /\ History(ret.i) = <<>>
  /\ Len(ghost[ret.i].out) = 1

\* C18: seed() without an argument returns the seed of the generator and
\* changes nothing: the generator, and with it every result to come, the
\* history and its capacity are as they were.
SeedGetChangesNothing ==
  [][ret'.op = "seed()" =>
       /\ ret'.val = uniform[ret'.i].seed
       /\ uniform' = uniform
       /\ history' = history
       /\ max' = max]_vars
\* seed() has returned 5489 with a draw in the history
SeedGotAfterDraw ==
  /\ ret.op = "seed()"
  /\ ret.val = [t |-> "number", a |-> <<Int53(5489)>>]
  /\ Len(History(ret.i)) = 1

(***************************************************************************)
(* The array history() returns                                             *)
(***************************************************************************)
\* the calls the instance takes
HistCalls == 4
\* the argument of seed: 7
HistSeeds == {NumberArg(Number(FALSE, Int53(7), 0))}

InitHistory ==
  \E seed \in InitSeeds : \E g \in NewKDUniform(seed) :
    Constructed(<<seed>>, <<g>>, <<HistCalls>>)

NextHistory ==
  \/ \E i \in Instances : Uniform(i)
  \/ \E i \in Instances : HistoryGet(i)
  \/ \E w \in Writes : Write(w)
  \/ \E i \in Instances : ClearHistory(i)
  \/ \E i \in Instances : \E seed \in HistSeeds : Seed(i, seed)
  \/ \E i \in Instances : Mean(i)

SpecHistory == InitHistory /\ [][NextHistory]_vars

\* C15: history() returns a new array with the elements of the history;
\* a write to the array returned (push, length = 0, [0] = x, sort) never
\* changes the history, hence what later calls of history() return, and
\* no later draw, clearHistory() or seed(value) changes the array.
SnapshotIndependent ==
  [][/\ ret'.op = "history" =>
          /\ ret'.val.a = History(ret'.i)
          /\ snapshot'.val = History(ret'.i)
          /\ history' = history
     /\ ret'.op \in Writes => history' = history
     /\ ret'.op \notin (Writes \cup {"history"}) => snapshot'.val = snapshot.val]_vars
\* uniform(), history(), a write of NaN to the first element of the array
\* returned and uniform(): the array holds NaN, the history the two draws
SnapshotWrittenAndKept ==
  /\ ret.op = "uniform"
  /\ snapshot.i = ret.i
  /\ snapshot.val = <<NaN>>
  /\ Len(History(ret.i)) = 2
  /\ History(ret.i)[1] # NaN

\* C19: no call of a public method throws, whatever the argument and the
\* state, also with an empty history (after construction, clearHistory()
\* or seed(value)).
NoCallThrows == ret.err = "none"

(***************************************************************************)
(* The raw draws                                                           *)
(***************************************************************************)
\* C25: the vector is regenerated once per N raw draws: a raw draw made
\* while words of the vector are left (the index is 1 .. N - 1) leaves the
\* vector as it is and moves the index on by one.
TwistOncePerBlock ==
  [][\A i \in DOMAIN uniform :
       (ret'.op = "uniform" /\ ret'.i = i /\ uniform[i].mti > 0 /\ uniform[i].mti < N) =>
         /\ uniform'[i].mt = uniform[i].mt
         /\ uniform'[i].mti = uniform[i].mti + 1]_vars

\* C26: uniform() takes two raw draws from the generator, c1 and then c2,
\* and returns (c1 >>> 5) * 2^26 + (c2 >>> 6), times 2^-53.
UniformOfTwoDraws ==
  [][\A i \in DOMAIN uniform :
       (ret'.op = "uniform" /\ ret'.i = i) =>
         /\ uniform'[i].mt = int32(int32(uniform[i])).mt
         /\ uniform'[i].mti = int32(int32(uniform[i])).mti
         /\ ret'.val = floatingPointFix(
                         Res53(ShrInt(int32(uniform[i]).y, 5),
                               ShrInt(int32(int32(uniform[i])).y, 6)))]_vars

(***************************************************************************)
(* The low 32 bits of a seed                                               *)
(***************************************************************************)
\* the calls each of the two instances takes
LowCalls == 2
\* 5 and 2^32 + 5
LowSeeds ==
  { NumberArg(Number(FALSE, <<0, 0, 5>>, 0)),
    NumberArg(Number(FALSE, <<1, 0, 5>>, 0)) }

InitLow ==
  \E s1 \in LowSeeds : \E s2 \in LowSeeds :
    \E g1 \in NewKDUniform(s1) : \E g2 \in NewKDUniform(s2) :
      Constructed(<<s1, s2>>, <<g1, g2>>, <<LowCalls, LowCalls>>)

NextLow ==
  \/ \E i \in Instances : Uniform(i)
  \/ \E i \in Instances : \E seed \in LowSeeds : Seed(i, seed)
  \/ \E i \in Instances : SeedGet(i)

SpecLow == InitLow /\ [][NextLow]_vars

\* arg is an integer that init takes as the seed, and its low 32 bits
LowBits(arg) == ToUint32(ensureUint(arg.n))
\* instances i and j were last seeded with integers congruent modulo 2^32
Congruent(i, j) ==
  /\ ghost[i].arg.t = "number" /\ Valid(ghost[i].arg)
  /\ ghost[j].arg.t = "number" /\ Valid(ghost[j].arg)
  /\ LowBits(ghost[i].arg) = LowBits(ghost[j].arg)

\* C30: two instances seeded with valid integers that are congruent modulo
\* 2^32 return the same results, and have the same state vector after as
\* many draws; the seed kept, which seed() and seed(value) return, is the
\* integer itself, so it differs when the integers do.
LowBitsOfSeed ==
  /\ \A i \in DOMAIN uniform : \A j \in DOMAIN uniform :
       Congruent(i, j) =>
         /\ Agree(ghost[i].out, ghost[j].out)
         /\ Len(ghost[i].out) = Len(ghost[j].out) => uniform[i].mt = uniform[j].mt
         /\ (uniform[i].seed = uniform[j].seed) <=>
              (ensureUint(ghost[i].arg.n) = ensureUint(ghost[j].arg.n))
  /\ ret.op \in {"seed", "seed()"} =>
       ret.val = [t |-> "number", a |-> <<ensureUint(ghost[ret.i].arg.n)>>]
\* the instances seeded with 5 and with 2^32 + 5 have drawn the same
\* result, and seed() has returned a seed that is not the other's
LowBitsDrawn ==
  /\ DOMAIN uniform = {1, 2}
  /\ Congruent(1, 2)
  /\ ghost[1].arg # ghost[2].arg
  /\ Len(ghost[1].out) >= 1
  /\ ghost[1].out = ghost[2].out
  /\ ret.op = "seed()"
  /\ ret.val # uniform[3 - ret.i].seed

(***************************************************************************)
(* The sample that is taken again                                          *)
(***************************************************************************)
\* the samples in [0, 1] that KDGaussian may take with a new KDUniform
InRangeOfNew ==
  UNION {{n.v : n \in {m \in {Recentred(z) : z \in BoxMuller(First(fresh).u, First(fresh).v)} :
                         ~m.neg /\ LessEq(m.v, One)}} :
           fresh \in NewKDUniform(NullArg)}

\* C27: a sample outside [0, 1] is replaced by a sample taken with a new
\* generator, to which the exponent of the skew passed by the caller is
\* applied once: gaussian(skew) then returns fix(n ^ scaleSkew(skew)) for
\* a sample n in [0, 1] of a new generator.
SkewOnceOnResample ==
  [][(ret'.op = "gaussian" /\ ret'.arg.again) =>
       ret'.val \in UNION {{floatingPointFix(p) : p \in MathPow(n, scaleSkew(ret'.arg.v))} :
                             n \in InRangeOfNew}]_vars

\* C28: gaussian(skew) takes u and v, two draws when neither is 0, from
\* the generator of the instance and nothing else, also when the sample is
\* taken again: the generator is left as two calls of random() leave it,
\* so that the following results of the instance are the same.
GaussianDrawsTwo ==
  [][\A i \in DOMAIN uniform :
       ( /\ ret'.op = "gaussian" /\ ret'.i = i
         /\ random(uniform[i]).value # Zero
         /\ random(random(uniform[i])).value # Zero ) =>
         /\ uniform'[i].mt = random(random(uniform[i])).mt
         /\ uniform'[i].mti = random(random(uniform[i])).mti]_vars
\* gaussian(-1) has returned after the sample was taken again, and the
\* generator of the instance is the one two draws leave
GaussianTakenAgainDrewTwo ==
  /\ ret.op = "gaussian"
  /\ ret.arg.again
  /\ ret.arg.v = Skew(TRUE, One)
  /\ Len(ghost[ret.i].out) = 1
  /\ uniform[ret.i].mti = 1

(***************************************************************************)
(* The static methods scale, clip and round                                *)
(***************************************************************************)
\* KDRoll.clip(value, range), KDRoll.scale(value, r1, r2) and
\* KDRoll.round(value, places): KDNumber.clip, KDNumber.scale and
\* KDNumber.round, of no instance
Static(op, arg, val) ==
  /\ ret' = Returned(0, op, arg, val)
  /\ console' = <<>>
  /\ UNCHANGED <<uniform, history, max, ghost, host, snapshot>>
Clip(value, range) ==
  Static("clip", [t |-> "number", value |-> value, range |-> range],
         clip(value, range))
Scale(value, r1, r2) ==
  Static("scale", [t |-> "number", value |-> value, r1 |-> r1, r2 |-> r2],
         scale(value, r1, r2))
Round(value, places) ==
  Static("round", [t |-> "number", value |-> value, places |-> places],
         round(value, places))

\* the values and the ranges clip is called with: 0, 0.5, 2, -3 and 0.95;
\* [0.3, 0.8], [0, 0.9999999], [0.10000001, 1], [-2, -1] and [1, 10]
ClipValues ==
  { Pos(Zero),
    Signed(FALSE, [d |-> <<5>>, e |-> 0]),
    Signed(FALSE, [d |-> <<2>>, e |-> 1]),
    Signed(TRUE, [d |-> <<3>>, e |-> 1]),
    Signed(FALSE, [d |-> <<9, 5>>, e |-> 0]) }
ClipRanges ==
  { <<Signed(FALSE, [d |-> <<3>>, e |-> 0]), Signed(FALSE, [d |-> <<8>>, e |-> 0])>>,
    <<Pos(Zero), Signed(FALSE, [d |-> <<9, 9, 9, 9, 9, 9, 9>>, e |-> 0])>>,
    <<Signed(FALSE, [d |-> <<1, 0, 0, 0, 0, 0, 0, 1>>, e |-> 0]), Signed(FALSE, [d |-> <<1>>, e |-> 1])>>,
    <<Signed(TRUE, [d |-> <<2>>, e |-> 1]), Signed(TRUE, [d |-> <<1>>, e |-> 1])>>,
    <<Signed(FALSE, [d |-> <<1>>, e |-> 1]), Signed(FALSE, [d |-> <<1>>, e |-> 2])>> }
\* the values round is called with: 0.5, 0.15, 0.149, 0.456789, -1.000007,
\* -0.15, -2.5, 2.5, 0.0000001, 1928.9998
RoundValues ==
  { Signed(FALSE, [d |-> <<5>>, e |-> 0]),
    Signed(FALSE, [d |-> <<1, 5>>, e |-> 0]),
    Signed(FALSE, [d |-> <<1, 4, 9>>, e |-> 0]),
    Signed(FALSE, [d |-> <<4, 5, 6, 7, 8, 9>>, e |-> 0]),
    Signed(TRUE, [d |-> <<1, 0, 0, 0, 0, 0, 7>>, e |-> 1]),
    Signed(TRUE, [d |-> <<1, 5>>, e |-> 0]),
    Signed(TRUE, [d |-> <<2, 5>>, e |-> 1]),
    Signed(FALSE, [d |-> <<2, 5>>, e |-> 1]),
    Signed(FALSE, [d |-> <<1>>, e |-> -6]),
    Signed(FALSE, [d |-> <<1, 9, 2, 8, 9, 9, 9, 8>>, e |-> 4]) }
\* the greatest number of places round is called with
MaxPlaces == 5
Places == {0, 1, 3, MaxPlaces}
\* the values and the ranges scale is called with: 0, 0.45, 0.5, 45, 12,
\* -0.25 and 55; [0, 1], [0, 100], [-1, 1], [0, 3], [2.3, 98.6] and
\* [33.42, 87.55]
ScaleValues ==
  { Pos(Zero),
    Signed(FALSE, [d |-> <<4, 5>>, e |-> 0]),
    Signed(FALSE, [d |-> <<5>>, e |-> 0]),
    Signed(FALSE, [d |-> <<4, 5>>, e |-> 2]),
    Signed(FALSE, [d |-> <<1, 2>>, e |-> 2]),
    Signed(TRUE, [d |-> <<2, 5>>, e |-> 0]),
    Signed(FALSE, [d |-> <<5, 5>>, e |-> 2]) }
ScaleRanges ==
  { <<Pos(Zero), Signed(FALSE, [d |-> <<1>>, e |-> 1])>>,
    <<Pos(Zero), Signed(FALSE, [d |-> <<1>>, e |-> 3])>>,
    <<Signed(TRUE, [d |-> <<1>>, e |-> 1]), Signed(FALSE, [d |-> <<1>>, e |-> 1])>>,
    <<Pos(Zero), Signed(FALSE, [d |-> <<3>>, e |-> 1])>>,
    <<Signed(FALSE, [d |-> <<2, 3>>, e |-> 1]),
      Signed(FALSE, [d |-> <<9, 8, 6>>, e |-> 2])>>,
    <<Signed(FALSE, [d |-> <<3, 3, 4, 2>>, e |-> 2]),
      Signed(FALSE, [d |-> <<8, 7, 5, 5>>, e |-> 2])>> }

\* the result of scale is scaled back from r2 to r1
ScaleBack ==
  /\ ret.op = "scale"
  /\ ret.arg.value \in ScaleValues
  /\ Scale(ret.val, ret.arg.r2, ret.arg.r1)

InitNumber ==
  \E seed \in InitSeeds : \E g \in NewKDUniform(seed) :
    Constructed(<<seed>>, <<g>>, <<0>>)

NextNumber ==
  \/ \E value \in ClipValues : \E range \in ClipRanges : Clip(value, range)
  \/ \E value \in ScaleValues : \E r1 \in ScaleRanges : \E r2 \in ScaleRanges :
       Scale(value, r1, r2)
  \/ ScaleBack
  \/ \E value \in RoundValues : \E places \in Places : Round(value, places)

SpecNumber == InitNumber /\ [][NextNumber]_vars

\* x <= y
SignedLessEq(x, y) == x.v # NaN /\ (x = y \/ SignedLess(x, y))

\* C21: for every value and every range with min <= max the result of
\* clip(value, [min, max]) is at least min and at most max.
ClipWithinRange ==
  (ret.op = "clip" /\ SignedLessEq(ret.arg.range[1], ret.arg.range[2])) =>
    /\ SignedLessEq(ret.arg.range[1], ret.val)
    /\ SignedLessEq(ret.val, ret.arg.range[2])

\* (value - min1) * (max2 - min2) / (max1 - min1) + min2
Remap(value, r1, r2) ==
  SignedPlus(r2[1],
    SignedOver(SignedTimes(SignedMinus(value, r1[1]), SignedMinus(r2[2], r2[1])),
               SignedMinus(r1[2], r1[1])))

\* the call scales the result of the last call back from r2 to r1
IsScaledBack ==
  /\ ret.op = "scale"
  /\ ret'.arg.value = ret.val
  /\ ret'.arg.r1 = ret.arg.r2
  /\ ret'.arg.r2 = ret.arg.r1

HasPlaces(x, places) == x = Zero \/ Len(x.d) - x.e <= places
\* 10^-places
UnitOf(places) == [d |-> <<1>>, e |-> 1 - places]
\* twice the distance of r from value
TwiceOff(value, r) == Times(NumOf(2), SignedMinus(r, value).v)

\* C23: round(value, places) is value rounded at places decimals, a next
\* digit below 5 down and 5 or above up: the result is a number with at
\* most places decimals, no further than half of 10^-places from value,
\* and above value when value is positive and half-way.
RoundHalfUp ==
  ret.op = "round" =>
    /\ ret.val.v # NaN
    /\ HasPlaces(ret.val.v, ret.arg.places)
    /\ LessEq(TwiceOff(ret.arg.value, ret.val), UnitOf(ret.arg.places))
    /\ (~ret.arg.value.neg
        /\ TwiceOff(ret.arg.value, ret.val) = UnitOf(ret.arg.places)) =>
         SignedLess(ret.arg.value, ret.val)

(***************************************************************************)
(* The statistics of the history                                           *)
(***************************************************************************)
\* the calls each instance takes
StatCalls == 4
\* d(6)
StatSides == {NumberSides(NumOf(6))}
\* the arguments of modes: none, [1, 2, 2, 3], [3, 1, 2] and [0.5, 0.5, 1]
ModesArgs ==
  { Undefined,
    ArrayArg(<<[d |-> <<1>>, e |-> 1], [d |-> <<2>>, e |-> 1], [d |-> <<2>>, e |-> 1], [d |-> <<3>>, e |-> 1]>>),
    ArrayArg(<<[d |-> <<3>>, e |-> 1], [d |-> <<1>>, e |-> 1], [d |-> <<2>>, e |-> 1]>>),
    ArrayArg(<<[d |-> <<5>>, e |-> 0], [d |-> <<5>>, e |-> 0], [d |-> <<1>>, e |-> 1]>>) }

InitStats ==
  \E seed \in InitSeeds : \E g \in NewKDUniform(seed) :
    Constructed(<<seed>>, <<g>>, <<StatCalls>>)

NextStats ==
  \/ \E i \in Instances : Uniform(i)
  \/ \E i \in Instances : \E sides \in StatSides : D(i, sides)
  \/ \E i \in Instances : HistoryGet(i)
  \/ \E i \in Instances : Mean(i)
  \/ \E i \in Instances : Median(i)
  \/ \E i \in Instances : \E arr \in ModesArgs : Modes(i, arr)
  \/ \E i \in Instances : StandardDeviation(i)

SpecStats == InitStats /\ [][NextStats]_vars

\* the values of arr that occur most often, ascending, each of them once
Frequent(arr) ==
  SelectSeq(Once(Sorted(arr)), LAMBDA x : Count(arr, x) = MaxCount(arr))
\* the array that modes(arg) of instance i works on
ModesOf(i, arg) == IF arg.t = "array" THEN arg.a ELSE History(i)

\* C24: modes(arr) returns exactly the values of arr that occur most often,
\* in ascending order, for every array that is not empty; without an
\* argument it returns those of the history.
ModesMostFrequent ==
  (ret.op = "modes" /\ ModesOf(ret.i, ret.arg) # <<>>) =>
    ret.val.a = Frequent(ModesOf(ret.i, ret.arg))

\* mean, median, modes and standardDeviation
Statistics == {"mean", "median", "modes", "standardDeviation"}

\* C29: mean(), median(), modes() and standardDeviation() without an
\* argument never change the history: history() returns the same elements
\* in the same order before and after the call.
StatisticsKeepHistory ==
  [][(ret'.op \in Statistics /\ ret'.t = "undefined") =>
       /\ history' = history
       /\ \A i \in DOMAIN history :
            [k \in 1..Len(history'[i]) |-> history'[i][k][1]] = History(i)]_vars

\* median() has returned the mean of the two draws of a history whose
\* second element is less than the first, and the history is as it was
MedianOfUnsorted ==
  /\ ret.op = "median"
  /\ Len(History(1)) = 2
  /\ Less(History(1)[2], History(1)[1])
  /\ ret.val = floatingPointFix(OverInt(Plus(History(1)[1], History(1)[2]), 2))

====
